---- MODULE Spec2Model ----
(***************************************************************************)
(* Step-based deployment plans of snap-openstack (sunbeam):                *)
(*   - the plan runner (run_plan) applying the step protocol               *)
(*     prompt / is_skip / run to an ordered list of steps;                 *)
(*   - the MicroCeph steps ConfigureMicrocephOSDStep and                   *)
(*     SetCephMgrPoolSizeStep (sunbeam/commands/microceph.py);             *)
(*   - the bootstrap and deploy commands of the MAAS provider              *)
(*     (sunbeam/provider/maas.py).                                         *)
(* Strings that hold comma separated lists are modelled by the sequence    *)
(* of their items: ",".join(l) and s.split(",") are the conversions        *)
(* between a Python list and such a string.                                *)
(***************************************************************************)
EXTENDS Naturals, Integers, Sequences, FiniteSets, TLC

\* ---------------------------------------------------------------- bounds
MaxSteps == 2       \* longest plan handed to the runner
MaxExec == 2        \* plan executions (invocations of the owning command)
MaxStorage == 4     \* largest number of storage nodes the cluster reports
MaxNodes == 2       \* largest number of nodes of one role counted by deploy
MaxChecks == 2      \* longest list of checks handed to a check runner
MaxResults == 2     \* most results a check returns

\* ------------------------------------------------------------- constants
CONFIG_KEY == "TerraformVarsMicrocephPlan"
CONFIG_DISKS_KEY == "TerraformVarsMicroceph"
APPLICATION == "microceph"

Nodes == {"node-1", "node-2"}
Disks == {"/dev/sdb", "/dev/sdc"}
Groups == {CONFIG_DISKS_KEY, CONFIG_KEY}

\* ------------------------------------------------------------ data model
\* An optional string holding a comma separated list: None, or the items.
None == [isNone |-> TRUE, toks |-> <<>>]
Str(t) == [isNone |-> FALSE, toks |-> t]
\* Python truthiness of an optional string: None and "" are falsy.
Truthy(s) == (~s.isNone) /\ s.toks # <<>>

Range(s) == {s[i] : i \in DOMAIN s}
\* every ordering of a finite set, as sequences without repetition
Perms(S) == {s \in [1..Cardinality(S) -> S] : Range(s) = S}

\* ",".join(items)
Join(items) == Str(items)
\* s.split(","), for a non-empty string s
Split(s) == s.toks

ResultTypes == {"COMPLETED", "FAILED", "SKIPPED"}
NoMessage == [text |-> "", disks |-> None]
Msg(text, disks) == [text |-> text, disks |-> disks]
Result(t, m) == [result_type |-> t, message |-> m]
NoResult == [result_type |-> "NONE", message |-> NoMessage]

\* failure kinds of the Juju helper, and of the cluster daemon client
KnownFailures == {"UnitNotFound", "ApplicationNotFound", "LeaderNotFound",
                  "ActionFailed"}
ExcTexts == {"", "juju error"}

\* The steps a plan is made of: the two MicroCeph steps of microceph.py,
\* and any other step ("step"), whose hooks may end in any way.
StepKinds == {[kind |-> "step", node |-> "-"], [kind |-> "pool", node |-> "-"]}
             \cup {[kind |-> "osd", node |-> n] : n \in Nodes}
Plans == UNION {[1..k -> StepKinds] : k \in 1..MaxSteps}

\* ------------------------------------------------------------- variables
VARIABLES
    plan,            \* the ordered list of steps of the current execution
    exec,            \* number of the current plan execution
    idx,             \* position of the runner in the plan
    pc,              \* "step" | "prompt" | "is_skip" | "run" | "done"
    planStatus,      \* "running" | "success" | "failed" | "raised"
    results,         \* results recorded by the runner, in order
    surfaced,        \* the failure surfaced to the operator
    raised,          \* the exception that left the runner, "" if none
    trace,           \* hooks invoked and hooks ended, in order
    active,          \* hooks invoked and not yet returned
    declared,        \* has_prompts() of each step started
    self,            \* the fields of the step instance being executed
    unit_osds,       \* per node: disks that are OSDs of the microceph unit
    unit_unpart,     \* per node: unpartitioned disks of the machine
    store,           \* the persisted Question/Answer store
    preseed,         \* deployment preseed: node -> osd_devices
    accept_defaults, \* the --accept-defaults flag
    cmd,             \* the bootstrap or deploy command being executed
    call,            \* the function applied to given arguments, and its value
    lastHook,        \* what the hook of the step that ended last did
    actions,         \* remote actions invoked by the current step
    prevSel,         \* per node: the disks selected by its latest prompt
    earlier          \* what the prompt of the step loaded, and prevSel of the
                     \* step's node when the prompt began

runnerVars == <<plan, exec, idx, pc, planStatus, results, surfaced, raised,
                trace, active, declared>>
envVars == <<unit_osds, unit_unpart, store>>
cfgVars == <<preseed, accept_defaults, cmd, call>>
histVars == <<lastHook, actions, prevSel, earlier>>
vars == <<runnerVars, self, envVars, cfgVars, histVars>>

\* ------------------------------------------------- step instance fields
\* ConfigureMicrocephOSDStep.__init__ and SetCephMgrPoolSizeStep.__init__
NewInstance(step) ==
    [kind |-> step.kind,
     node_name |-> step.node,
     machine_id |-> "",
     disks |-> Str(<<>>),
     unpartitioned_disks |-> <<>>,
     osd_disks |-> <<>>,
     storage_nodes |-> 0]

NoInstance == NewInstance([kind |-> "none", node |-> "-"])
NoHook == [kind |-> "none", hook |-> "none", fault |-> "none",
           outcome |-> "none", result |-> NoResult,
           payload |-> [parseable |-> FALSE, items |-> <<>>],
           before |-> None, exc_text |-> "-", has_status |-> FALSE]
NoSelection == [seen |-> FALSE, sel |-> None]
\* no command of the MAAS provider: a plan handed to the runner directly
NoCommand == [name |-> "none"]
\* no function applied on its own
NoCall == [fn |-> "none"]
\* what prompt loaded, and what the prompt before it selected for the node
NoEarlier == [seen |-> FALSE, sel |-> None, loaded |-> FALSE,
              variables |-> <<>>]

\* ------------------------------------------------------------ plan runner
\* run_plan: for each step in order, prompt (when the step declares
\* prompts), is_skip, run; SKIPPED advances, FAILED aborts the plan.

\* The runner treats a hook invocation as synchronous: the hook has
\* completed when control is back in the runner.
HookNotAwaited(act, i, h) == act
HookReturned(act, i, h) == act \ {<<i, h>>}

\* has_prompts(): ConfigureMicrocephOSDStep declares prompts,
\* SetCephMgrPoolSizeStep inherits the default, other steps declare either.
HasPrompts(step) ==
    IF step.kind = "osd" THEN {TRUE}
    ELSE IF step.kind = "pool" THEN {FALSE}
    ELSE BOOLEAN

\* the first hook the runner invokes for a step
FirstHook(hp) == IF hp THEN "prompt" ELSE "is_skip"

\* events of the trace: a hook is invoked, a hook ended (with the type of
\* its result, "NONE" for prompt, "RAISED" when an exception left it)
Call(i, h) == [ev |-> "call", step |-> i, hook |-> h, type |-> "-"]
Ret(i, h, t) == [ev |-> "ret", step |-> i, hook |-> h, type |-> t]

StartStep ==
    /\ pc = "step"
    /\ idx <= Len(plan)
    /\ \E hp \in HasPrompts(plan[idx]) :
          /\ declared' = Append(declared, hp)
          /\ pc' = FirstHook(hp)
          /\ trace' = Append(trace, Call(idx, FirstHook(hp)))
          /\ active' = active \cup {<<idx, FirstHook(hp)>>}
    /\ self' = NewInstance(plan[idx])
    /\ actions' = <<>>
    /\ earlier' = NoEarlier
    /\ lastHook' = NoHook
    /\ UNCHANGED <<plan, exec, idx, planStatus, results, surfaced, raised>>
    /\ UNCHANGED <<envVars, cfgVars, prevSel>>

\* prompt returned: the runner invokes is_skip
AfterPrompt ==
    /\ pc' = "is_skip"
    /\ trace' = trace \o <<Ret(idx, "prompt", "NONE"), Call(idx, "is_skip")>>
    /\ active' = HookReturned(active, idx, "prompt") \cup {<<idx, "is_skip">>}
    /\ UNCHANGED <<plan, exec, idx, planStatus, results, surfaced, raised,
                   declared>>

SkipDecisionRunsSkipped(r) ==
    IF r.result_type = "FAILED" THEN "abort" ELSE "run"
\* what the runner does with the result of is_skip
SkipDecision(r) ==
    IF r.result_type = "SKIPPED" THEN "advance"
    ELSE IF r.result_type = "FAILED" THEN "abort"
    ELSE "run"

RunDecisionRetries(r) ==
    IF r.result_type = "FAILED" THEN "run" ELSE "advance"
RunDecisionIgnoresFailure(r) == "advance"
\* what the runner does with the result of run
RunDecision(r) ==
    IF r.result_type = "FAILED" THEN "abort" ELSE "advance"

SurfacedLast(decision, r, old) == old
\* the failure the runner surfaces: the result that aborted the plan
Surfaced(decision, r, old) == IF decision = "abort" THEN r ELSE old

\* the runner records a result and advances, aborts, or invokes run
Proceed(h, r, decision) ==
    /\ results' = IF decision = "run" THEN results
                  ELSE Append(results, [step |-> idx, result |-> r])
    /\ idx' = IF decision = "advance" THEN idx + 1 ELSE idx
    /\ pc' = IF decision = "advance" THEN "step"
             ELSE IF decision = "abort" THEN "done" ELSE "run"
    /\ planStatus' = IF decision = "abort" THEN "failed" ELSE planStatus
    /\ surfaced' = Surfaced(decision, r, surfaced)
    /\ trace' = Append(trace, Ret(idx, h, r.result_type))
                  \o (IF decision = "run" THEN <<Call(idx, "run")>> ELSE <<>>)
    /\ active' = HookReturned(active, idx, h)
                    \cup (IF decision = "run" THEN {<<idx, "run">>} ELSE {})
    /\ UNCHANGED <<plan, exec, raised, declared>>

AfterIsSkip(r) == Proceed("is_skip", r, SkipDecision(r))
AfterRun(r) == Proceed("run", r, RunDecision(r))

\* an exception left the hook: it propagates through the runner
Propagate(h, e) ==
    /\ pc' = "done"
    /\ planStatus' = "raised"
    /\ raised' = e
    /\ trace' = Append(trace, Ret(idx, h, "RAISED"))
    /\ active' = HookReturned(active, idx, h)
    /\ UNCHANGED <<plan, exec, idx, results, surfaced, declared>>

FinishPlan ==
    /\ pc = "step"
    /\ idx > Len(plan)
    /\ pc' = "done"
    /\ planStatus' = "success"
    /\ UNCHANGED <<plan, exec, idx, results, surfaced, raised, trace, active,
                   declared>>
    /\ UNCHANGED <<self, envVars, cfgVars, histVars>>

\* the owning command is invoked again: the same plan, with new step
\* instances, against the persisted store and the remote state as they are
NewExecution ==
    /\ pc = "done"
    /\ exec < MaxExec
    /\ exec' = exec + 1
    /\ idx' = 1
    /\ pc' = "step"
    /\ planStatus' = "running"
    /\ results' = <<>>
    /\ surfaced' = NoResult
    /\ raised' = ""
    /\ trace' = <<>>
    /\ active' = {}
    /\ declared' = <<>>
    /\ self' = NoInstance
    /\ lastHook' = NoHook
    /\ actions' = <<>>
    /\ earlier' = NoEarlier
    /\ UNCHANGED <<plan, envVars, cfgVars, prevSel>>

\* ------------------------------------------------- Question/Answer store
\* The answers of a config group: node -> osd_devices (the content of
\* "microceph_config"); a group never written is absent.
EmptyCfg == [n \in {} |-> None]
Absent == [present |-> FALSE, cfg |-> EmptyCfg]

\* questions.load_answers: the persisted mapping, or an empty mapping
load_answers(st, g) == IF st[g].present THEN st[g].cfg ELSE EmptyCfg

write_answers_merges(st, g, m) ==
    [st EXCEPT ![g] = [present |-> TRUE,
                       cfg |-> [k \in DOMAIN m \cup DOMAIN st[g].cfg |->
                                  IF k \in DOMAIN m THEN m[k] ELSE st[g].cfg[k]]]]
write_answers_clobbers(st, g, m) ==
    [h \in DOMAIN st |-> IF h = g THEN [present |-> TRUE, cfg |-> m]
                         ELSE [present |-> FALSE, cfg |-> <<>>]]
\* questions.write_answers: replaces the persisted mapping of the group
write_answers(st, g, m) == [st EXCEPT ![g] = [present |-> TRUE, cfg |-> m]]

\* dict.setdefault(k, v) and d[k] = v
SetDefault(d, k, v) ==
    IF k \in DOMAIN d THEN d
    ELSE [x \in DOMAIN d \cup {k} |-> IF x = k THEN v ELSE d[x]]
PutAlone(d, k, v) == [x \in {k} |-> v]
Put(d, k, v) == [x \in DOMAIN d \cup {k} |-> IF x = k THEN v ELSE d[x]]

ask_reads_anyway(preseed_value, previous_answer, accept) ==
    preseed_value.isNone /\ previous_answer.isNone
\* whether Question.ask puts the question on the console and reads a value:
\* only when no preseed and no previous answer settle it, and never with
\* accept-defaults
ask_reads(preseed_value, previous_answer, accept) ==
    preseed_value.isNone /\ previous_answer.isNone /\ ~accept

ask_previous_first(preseed_value, previous_answer, accept, typed, default_value) ==
    IF ~previous_answer.isNone THEN previous_answer
    ELSE IF ~preseed_value.isNone THEN preseed_value
    ELSE IF ~accept THEN typed
    ELSE default_value
\* Question.ask of the question bank: explicit preseed value, else the
\* previous stored answer, else the value typed at the prompt, else (accept
\* defaults) the computed default.
ask(preseed_value, previous_answer, accept, typed, default_value) ==
    IF ~preseed_value.isNone THEN preseed_value
    ELSE IF ~previous_answer.isNone THEN previous_answer
    ELSE IF ~accept THEN typed
    ELSE default_value

\* ------------------------------------------------------------ other steps
\* A step of any other class: its hooks end with any result, or raise.
Hook(kind, h, fault, outcome, r) ==
    [kind |-> kind, hook |-> h, fault |-> fault, outcome |-> outcome,
     result |-> r, payload |-> [parseable |-> FALSE, items |-> <<>>],
     before |-> None, exc_text |-> "-", has_status |-> FALSE]

StepPrompt ==
    /\ pc = "prompt"
    /\ self.kind = "step"
    /\ \/ /\ AfterPrompt
          /\ lastHook' = Hook("step", "prompt", "none", "returned", NoResult)
       \/ /\ Propagate("prompt", "Exception")
          /\ lastHook' = Hook("step", "prompt", "none", "raised", NoResult)
    /\ UNCHANGED <<self, envVars, cfgVars, actions, prevSel, earlier>>

StepResult(t) ==
    Result(t, IF t = "FAILED" THEN Msg("step failed", None) ELSE NoMessage)

StepIsSkip ==
    /\ pc = "is_skip"
    /\ self.kind = "step"
    /\ \/ \E t \in ResultTypes :
            /\ AfterIsSkip(StepResult(t))
            /\ lastHook' = Hook("step", "is_skip", "none", "returned",
                                StepResult(t))
       \/ /\ Propagate("is_skip", "Exception")
          /\ lastHook' = Hook("step", "is_skip", "none", "raised", NoResult)
    /\ UNCHANGED <<self, envVars, cfgVars, actions, prevSel, earlier>>

\* the variables a step of another class persists under its config group
PlanVars == [k \in {"machine_ids"} |-> Str(<<"0">>)]

\* run of another step: it may persist its variables before it completes
StepRun ==
    /\ pc = "run"
    /\ self.kind = "step"
    /\ \/ \E t \in {"COMPLETED", "FAILED"} :
            /\ AfterRun(StepResult(t))
            /\ lastHook' = Hook("step", "run", "none", "returned",
                                StepResult(t))
            /\ \/ UNCHANGED store
               \/ /\ t = "COMPLETED"
                  /\ store' = write_answers(store, CONFIG_KEY, PlanVars)
       \/ /\ Propagate("run", "Exception")
          /\ lastHook' = Hook("step", "run", "none", "raised", NoResult)
          /\ UNCHANGED store
    /\ UNCHANGED <<self, unit_osds, unit_unpart, cfgVars, actions, prevSel,
                   earlier>>

\* ------------------------------------------- ConfigureMicrocephOSDStep
machineid == [n \in Nodes |-> IF n = "node-1" THEN "0" ELSE "1"]

get_all_disks_goes_on(s) ==
    {[exc |-> "ClusterServiceUnavailable", fault |-> "ClusterdError",
      inst |-> s]}
    \cup
    {[exc |-> "", fault |-> f,
      inst |-> [s EXCEPT !.machine_id = machineid[s.node_name]]]
        : f \in {"UnitNotFound", "ActionFailed"}}
    \cup
    {[exc |-> "ApplicationNotFound", fault |-> "ApplicationNotFound",
      inst |-> [s EXCEPT !.machine_id = machineid[s.node_name]]]}
    \cup
    {[exc |-> "", fault |-> "none",
      inst |-> [s EXCEPT !.machine_id = machineid[s.node_name],
                         !.osd_disks = od,
                         !.unpartitioned_disks = ud]]
        : od \in Perms(unit_osds[s.node_name]),
          ud \in Perms(unit_unpart[s.node_name])}
\* get_all_disks: node info, unit of the machine, list-disks action
get_all_disks(s) ==
    {[exc |-> "ClusterServiceUnavailable", fault |-> "ClusterdError",
      inst |-> s]}
    \cup
    {[exc |-> "ClickException", fault |-> f,
      inst |-> [s EXCEPT !.machine_id = machineid[s.node_name]]]
        : f \in {"UnitNotFound", "ActionFailed"}}
    \cup
    {[exc |-> "ApplicationNotFound", fault |-> "ApplicationNotFound",
      inst |-> [s EXCEPT !.machine_id = machineid[s.node_name]]]}
    \cup
    {[exc |-> "", fault |-> "none",
      inst |-> [s EXCEPT !.machine_id = machineid[s.node_name],
                         !.osd_disks = od,
                         !.unpartitioned_disks = ud]]
        : od \in Perms(unit_osds[s.node_name]),
          ud \in Perms(unit_unpart[s.node_name])}

default_value_first(s) ==
    IF Len(s.unpartitioned_disks) > 0 THEN Join(<<Head(s.unpartitioned_disks)>>)
    ELSE None
\* microceph_config_questions: the default of osd_devices
default_value(s) ==
    IF Len(s.unpartitioned_disks) > 0 THEN Join(s.unpartitioned_disks)
    ELSE None

\* the preseed of the node after the defaults are set and a list of
\* devices is changed to a comma separated string
NoPreseed == [kind |-> "none", toks |-> <<>>]
preseed_osd_devices(ps, n) ==
    LET p == SetDefault(ps, n, NoPreseed)[n]
    IN IF p.kind = "list" THEN Join(p.toks)
       ELSE IF p.kind = "str" THEN Str(p.toks)
       ELSE None

\* what the operator may type at the prompt: a list, or enter (the default)
TypedInputs == {Str(<<>>), Str(<<"/dev/sdb">>), Str(<<"/dev/sdc", "/dev/sdb">>),
                Str(<<"/dev/sdb", "/dev/sdb">>)}
Typed(d) == TypedInputs \cup {d}

\* the answers loaded by prompt, with its defaults set
loaded_variables(st, n) == SetDefault(load_answers(st, CONFIG_DISKS_KEY), n, None)

\* prompt, from the answers loaded to the answer of the question bank: the
\* value of osd_devices for node n of step instance s (its disks listed)
prompt_answer(ps, st, n, accept, typed, s) ==
    ask(preseed_osd_devices(ps, n), loaded_variables(st, n)[n], accept,
        typed, default_value(s))

\* whether prompt reads a value from the console
prompt_reads(ps, st, n, accept) ==
    ask_reads(preseed_osd_devices(ps, n), loaded_variables(st, n)[n], accept)

OsdPrompt ==
    /\ pc = "prompt"
    /\ self.kind = "osd"
    /\ \E o \in get_all_disks(self) :
        \/ /\ o.exc # ""
           /\ self' = o.inst
           /\ Propagate("prompt", o.exc)
           /\ lastHook' = Hook("osd", "prompt", o.fault, "raised", NoResult)
           /\ UNCHANGED <<envVars, prevSel, earlier>>
        \/ /\ o.exc = ""
           /\ LET n == self.node_name
                  variables == loaded_variables(store, n)
                  dflt == default_value(o.inst)
              IN \E typed \in Typed(dflt) :
                  LET answer == prompt_answer(preseed, store, n,
                                              accept_defaults, typed, o.inst)
                  IN /\ self' = [o.inst EXCEPT !.disks = answer]
                     /\ store' = write_answers(store, CONFIG_DISKS_KEY,
                                               Put(variables, n, answer))
                     /\ prevSel' = [prevSel EXCEPT
                                      ![n] = [seen |-> TRUE, sel |-> answer]]
                     /\ earlier' = [seen |-> prevSel[n].seen,
                                     sel |-> prevSel[n].sel,
                                     loaded |-> TRUE,
                                     variables |-> variables]
           /\ AfterPrompt
           /\ lastHook' = Hook("osd", "prompt", o.fault, "returned", NoResult)
           /\ UNCHANGED <<unit_osds, unit_unpart>>
    /\ UNCHANGED <<cfgVars, actions>>

osd_is_skip_no_filter(s) ==
    IF ~Truthy(s.disks)
    THEN {[inst |-> s, result |-> Result("SKIPPED", NoMessage)]}
    ELSE {[inst |-> [s EXCEPT !.disks = Join(p)],
           result |-> Result("COMPLETED", NoMessage)]
            : p \in Perms(Range(Split(s.disks)))}
osd_is_skip_any_added(s) ==
    IF ~Truthy(s.disks) \/ Range(Split(s.disks)) \cap Range(s.osd_disks) # {}
    THEN {[inst |-> s, result |-> Result("SKIPPED", NoMessage)]}
    ELSE {[inst |-> [s EXCEPT !.disks = Join(p)],
           result |-> Result("COMPLETED", NoMessage)]
            : p \in Perms(Range(Split(s.disks)))}
osd_is_skip_keeps_selection(s) ==
    IF ~Truthy(s.disks)
    THEN {[inst |-> s, result |-> Result("SKIPPED", NoMessage)]}
    ELSE LET disks_to_add == Range(Split(s.disks)) \ Range(s.osd_disks)
         IN {[inst |-> s,
              result |-> IF ~Truthy(Join(p))
                         THEN Result("SKIPPED", NoMessage)
                         ELSE Result("COMPLETED", NoMessage)]
               : p \in Perms(disks_to_add)}
\* is_skip: nothing selected, or every selected disk already added
osd_is_skip(s) ==
    IF ~Truthy(s.disks)
    THEN {[inst |-> s, result |-> Result("SKIPPED", NoMessage)]}
    ELSE LET disks_to_add == Range(Split(s.disks)) \ Range(s.osd_disks)
         IN {[inst |-> [s EXCEPT !.disks = Join(p)],
              result |-> IF ~Truthy(Join(p))
                         THEN Result("SKIPPED", NoMessage)
                         ELSE Result("COMPLETED", NoMessage)]
               : p \in Perms(disks_to_add)}

OsdIsSkipSaves ==
    /\ pc = "is_skip"
    /\ self.kind = "osd"
    /\ \E o \in osd_is_skip(self) :
        /\ self' = o.inst
        /\ store' = write_answers(store, CONFIG_DISKS_KEY,
                                  Put(load_answers(store, CONFIG_DISKS_KEY),
                                      self.node_name, o.inst.disks))
        /\ AfterIsSkip(o.result)
        /\ lastHook' = [Hook("osd", "is_skip", "none", "returned", o.result)
                          EXCEPT !.before = self.disks]
    /\ UNCHANGED <<unit_osds, unit_unpart, cfgVars, actions, prevSel, earlier>>

OsdIsSkip ==
    /\ pc = "is_skip"
    /\ self.kind = "osd"
    /\ \E o \in osd_is_skip(self) :
        /\ self' = o.inst
        /\ AfterIsSkip(o.result)
        /\ lastHook' = [Hook("osd", "is_skip", "none", "returned", o.result)
                          EXCEPT !.before = self.disks]
    /\ UNCHANGED <<envVars, cfgVars, actions, prevSel, earlier>>

\* the per-item results carried by a failed add-osd action
MsgAlreadyExists == "entry already exists"
ItemMessages == {"failed to record disk: entry already exists",
                 "no such device", "None"}
ItemResults(disk) ==
    {[status |-> "success", message |-> "", spec |-> disk]}
    \cup {[status |-> "failure", message |-> m, spec |-> disk]
            : m \in ItemMessages}
EqualsAlreadyExists(m) == m = MsgAlreadyExists
\* "entry already exists" in message
ContainsAlreadyExists(m) ==
    m \in {MsgAlreadyExists, "failed to record disk: entry already exists"}

Payloads(toks) ==
    {[parseable |-> FALSE, items |-> <<>>]}
    \cup {[parseable |-> TRUE, items |-> it]
            : it \in {q \in [1..Len(toks) -> UNION {ItemResults(d) : d \in Disks}]
                        : \A i \in 1..Len(toks) : q[i].spec = toks[i]}}

\* the loop of run over the results: failed, or an exception of the
\* evaluation (a failing item without a message)
RECURSIVE eval_results(_, _)
eval_results(items, failed) ==
    IF items = <<>> THEN [raised |-> FALSE, failed |-> failed]
    ELSE LET result == Head(items)
         IN IF result.status = "failure"
            THEN IF result.message = "None"
                 THEN [raised |-> TRUE, failed |-> failed]
                 ELSE IF ContainsAlreadyExists(result.message)
                 THEN eval_results(Tail(items), failed)
                 ELSE eval_results(Tail(items), TRUE)
            ELSE eval_results(Tail(items), failed)

action_failed_always(payload, message) == Result("FAILED", message)
action_failed_unparsed_ok(payload, message) ==
    IF ~payload.parseable THEN Result("COMPLETED", NoMessage)
    ELSE LET e == eval_results(payload.items, FALSE)
         IN IF e.raised \/ e.failed THEN Result("FAILED", message)
            ELSE Result("COMPLETED", NoMessage)
\* the result of run when add-osd ended with ActionFailedException
action_failed_result(payload, message) ==
    IF ~payload.parseable THEN Result("FAILED", message)
    ELSE LET e == eval_results(payload.items, FALSE)
         IN IF e.raised \/ e.failed THEN Result("FAILED", message)
            ELSE Result("COMPLETED", NoMessage)

AddOsd(s) == [name |-> "add-osd", node |-> s.node_name,
              device_id |-> s.disks, size |-> 0]

\* run: unit of the machine, then the add-osd action on the selected disks
osd_run(s) ==
    LET message == Msg("Microceph Adding disks failed", s.disks)
        NoPayload == [parseable |-> FALSE, items |-> <<>>]
    IN {[exc |-> "", fault |-> "UnitNotFound", invoked |-> <<>>,
         result |-> Result("FAILED", message), payload |-> NoPayload,
         added |-> {}]}
       \cup
       {[exc |-> "ApplicationNotFound", fault |-> "ApplicationNotFound",
         invoked |-> <<>>, result |-> NoResult, payload |-> NoPayload,
         added |-> {}]}
       \cup
       {[exc |-> "", fault |-> "none", invoked |-> <<AddOsd(s)>>,
         result |-> Result("COMPLETED", NoMessage), payload |-> NoPayload,
         added |-> Range(s.disks.toks)]}
       \cup
       {[exc |-> "", fault |-> "ActionFailed", invoked |-> <<AddOsd(s)>>,
         result |-> action_failed_result(p, message), payload |-> p,
         added |-> {p.items[i].spec : i \in {j \in DOMAIN p.items :
                                        p.items[j].status = "success"}}]
           : p \in Payloads(s.disks.toks)}

OsdRun ==
    /\ pc = "run"
    /\ self.kind = "osd"
    /\ \E o \in osd_run(self) :
        /\ actions' = actions \o o.invoked
        /\ unit_osds' = [unit_osds EXCEPT
                           ![self.node_name] = @ \cup o.added]
        /\ unit_unpart' = [unit_unpart EXCEPT
                             ![self.node_name] = @ \ o.added]
        /\ IF o.exc # ""
           THEN /\ Propagate("run", o.exc)
                /\ lastHook' = Hook("osd", "run", o.fault, "raised", NoResult)
           ELSE /\ AfterRun(o.result)
                /\ lastHook' = [Hook("osd", "run", o.fault, "returned",
                                     o.result) EXCEPT !.payload = o.payload]
    /\ UNCHANGED <<self, store, cfgVars, prevSel, earlier>>

\* ---------------------------------------------- SetCephMgrPoolSizeStep
ceph_replica_scale_uncapped(storage_nodes) == storage_nodes
\* min(storage_nodes, 3)
ceph_replica_scale(storage_nodes) ==
    IF storage_nodes < 3 THEN storage_nodes ELSE 3

pool_is_skip_catches(s) ==
    {[exc |-> "", fault |-> "ClusterdError", inst |-> s,
      result |-> Result("FAILED", Msg("lookup failed", None))]}
    \cup
    {[exc |-> "", fault |-> "none",
      inst |-> [s EXCEPT !.storage_nodes = k],
      result |-> IF k # 0 THEN Result("COMPLETED", NoMessage)
                 ELSE Result("SKIPPED", NoMessage)]
        : k \in 0..MaxStorage}
pool_is_skip_never_skips(s) ==
    {[exc |-> "ClusterServiceUnavailable", fault |-> "ClusterdError",
      inst |-> s, result |-> NoResult]}
    \cup
    {[exc |-> "", fault |-> "none",
      inst |-> [s EXCEPT !.storage_nodes = k],
      result |-> Result("COMPLETED", NoMessage)]
        : k \in 0..MaxStorage}
\* is_skip: the storage nodes of the cluster; none means skip
pool_is_skip(s) ==
    {[exc |-> "ClusterServiceUnavailable", fault |-> "ClusterdError",
      inst |-> s, result |-> NoResult]}
    \cup
    {[exc |-> "", fault |-> "none",
      inst |-> [s EXCEPT !.storage_nodes = k],
      result |-> IF k # 0 THEN Result("COMPLETED", NoMessage)
                 ELSE Result("SKIPPED", NoMessage)]
        : k \in 0..MaxStorage}

PoolIsSkip ==
    /\ pc = "is_skip"
    /\ self.kind = "pool"
    /\ \E o \in pool_is_skip(self) :
        /\ self' = o.inst
        /\ IF o.exc # ""
           THEN /\ Propagate("is_skip", o.exc)
                /\ lastHook' = Hook("pool", "is_skip", o.fault, "raised",
                                    NoResult)
           ELSE /\ AfterIsSkip(o.result)
                /\ lastHook' = Hook("pool", "is_skip", o.fault, "returned",
                                    o.result)
    /\ UNCHANGED <<envVars, cfgVars, actions, prevSel, earlier>>

SetPoolSizeUnscaled(s) == [name |-> "set-pool-size", node |-> "leader",
                           device_id |-> None, size |-> s.storage_nodes]
SetPoolSize(s) == [name |-> "set-pool-size", node |-> "leader",
                   device_id |-> None,
                   size |-> ceph_replica_scale(s.storage_nodes)]

pool_run_ignores_status(s) ==
    {[fault |-> f, text |-> t, has_status |-> FALSE, invoked |-> <<>>,
      result |-> Result("FAILED", Msg(t, None))]
        : f \in {"ApplicationNotFound", "LeaderNotFound"}, t \in ExcTexts}
    \cup
    {[fault |-> "ActionFailed", text |-> t, has_status |-> FALSE,
      invoked |-> <<SetPoolSize(s)>>,
      result |-> Result("FAILED", Msg(t, None))] : t \in ExcTexts}
    \cup
    {[fault |-> "none", text |-> "-", has_status |-> has_status,
      invoked |-> <<SetPoolSize(s)>>,
      result |-> Result("COMPLETED", NoMessage)]
        : has_status \in BOOLEAN}
\* run: leader unit, then the set-pool-size action; text is str(e) of the
\* exception caught, has_status is result.get("status") is not None
pool_run(s) ==
    {[fault |-> f, text |-> t, has_status |-> FALSE, invoked |-> <<>>,
      result |-> Result("FAILED", Msg(t, None))]
        : f \in {"ApplicationNotFound", "LeaderNotFound"}, t \in ExcTexts}
    \cup
    {[fault |-> "ActionFailed", text |-> t, has_status |-> FALSE,
      invoked |-> <<SetPoolSize(s)>>,
      result |-> Result("FAILED", Msg(t, None))] : t \in ExcTexts}
    \cup
    {[fault |-> "none", text |-> "-", has_status |-> has_status,
      invoked |-> <<SetPoolSize(s)>>,
      result |-> IF has_status THEN Result("COMPLETED", NoMessage)
                 ELSE Result("FAILED",
                             Msg("ERROR: Failed to update pool size", None))]
        : has_status \in BOOLEAN}

PoolRun ==
    /\ pc = "run"
    /\ self.kind = "pool"
    /\ \E o \in pool_run(self) :
        /\ actions' = actions \o o.invoked
        /\ AfterRun(o.result)
        /\ lastHook' = [Hook("pool", "run", o.fault, "returned", o.result)
                          EXCEPT !.exc_text = o.text,
                                 !.has_status = o.has_status]
    /\ UNCHANGED <<self, envVars, cfgVars, prevSel, earlier>>

\* ------------------------------------------------------- specification
PreseedValues == {NoPreseed,
                  [kind |-> "str", toks |-> <<>>],
                  [kind |-> "str", toks |-> <<"/dev/sdb">>],
                  [kind |-> "list", toks |-> <<"/dev/sdc", "/dev/sdb">>]}
\* the deployment preseed names the disks of the first node, or no node
Preseeds == {EmptyCfg} \cup {[n \in {"node-1"} |-> v] : v \in PreseedValues}

\* the store before the first execution: never written, or holding the
\* answer given for the second node by an earlier deployment
InitialStores ==
    {[g \in Groups |-> Absent],
     [g \in Groups |-> IF g = CONFIG_DISKS_KEY
                       THEN [present |-> TRUE,
                             cfg |-> [n \in {"node-2"} |-> Str(<<"/dev/sdc">>)]]
                       ELSE Absent]}

\* the disks of the machines: those of the second node are fixed
InitialDisks ==
    {d \in [osds : [Nodes -> SUBSET Disks], unpart : [Nodes -> SUBSET Disks]] :
        /\ \A n \in Nodes : d.osds[n] \cap d.unpart[n] = {}
        /\ d.osds["node-2"] = {}
        /\ d.unpart["node-2"] = {"/dev/sdb"}}

\* a new deployment: no OSD yet, every disk unpartitioned on the first node
NewDisks ==
    [osds |-> [n \in Nodes |-> {}],
     unpart |-> [n \in Nodes |-> IF n = "node-1" THEN Disks ELSE {"/dev/sdb"}]]

\* Plans of every length are run on a new deployment; plans of one step are
\* run against every state of the disks, the store and the preseed.
InitEnv ==
    \/ /\ unit_osds = NewDisks.osds
       /\ unit_unpart = NewDisks.unpart
       /\ store = [g \in Groups |-> Absent]
       /\ preseed = EmptyCfg
    \/ /\ Len(plan) = 1
       /\ \E d \in InitialDisks : unit_osds = d.osds /\ unit_unpart = d.unpart
       /\ store \in InitialStores
       /\ preseed \in Preseeds

Init ==
    /\ plan \in Plans
    /\ exec = 1
    /\ idx = 1
    /\ pc = "step"
    /\ planStatus = "running"
    /\ results = <<>>
    /\ surfaced = NoResult
    /\ raised = ""
    /\ trace = <<>>
    /\ active = {}
    /\ declared = <<>>
    /\ self = NoInstance
    /\ InitEnv
    /\ accept_defaults \in BOOLEAN
    /\ cmd = NoCommand
    /\ call = NoCall
    /\ lastHook = NoHook
    /\ actions = <<>>
    /\ prevSel = [n \in Nodes |-> NoSelection]
    /\ earlier = NoEarlier

Next ==
    \/ StartStep
    \/ StepPrompt
    \/ StepIsSkip
    \/ StepRun
    \/ OsdPrompt
    \/ OsdIsSkip
    \/ OsdRun
    \/ PoolIsSkip
    \/ PoolRun
    \/ FinishPlan
    \/ NewExecution

Spec == Init /\ [][Next]_vars

\* The runner and the hooks it calls are one sequential thread of control:
\* whatever step is enabled is eventually taken.
SpecLive == Init /\ [][Next]_vars /\ WF_vars(Next)

TypeOK ==
    /\ plan \in Plans
    /\ exec \in 1..MaxExec
    /\ idx \in 1..(Len(plan) + 1)
    /\ pc \in {"step", "prompt", "is_skip", "run", "done"}
    /\ planStatus \in {"running", "success", "failed", "raised"}
    /\ accept_defaults \in BOOLEAN
    /\ \A n \in Nodes : unit_osds[n] \subseteq Disks /\ unit_unpart[n] \subseteq Disks

\* ------------------------------------------- bootstrap and deploy (MAAS)

\* the preflight checks of both commands, in the two batches they are run
PreflightChecks1 == <<"JujuSnapCheck", "LocalShareCheck",
                      "VerifyClusterdNotBootstrappedCheck">>
PreflightChecks2 == <<"NetworkMappingCompleteCheck">>

\* bootstrap: plan and plan2
BootstrapPlan == <<"AddCloudJujuStep", "AddCredentialsJujuStep",
                   "MaasBootstrapJujuStep", "MaasScaleJujuStep",
                   "MaasSaveControllerStep">>
BootstrapPlan2 == <<"DeploySunbeamClusterdApplicationStep",
                    "MaasSaveClusterdAddressStep">>
\* deploy: clusterd_plan, plan and plan2
DeployClusterdPlan == <<"MaasSaveClusterdAddressStep">>
DeployPlan == <<"AddInfrastructureModelStep", "MaasAddMachinesToClusterdStep",
                "MaasDeployMachinesStep">>
DeployPlan2OsdFirst ==
    <<"TerraformInitStep(sunbeam-machine)",
      "DeploySunbeamMachineApplicationStep",
      "AddSunbeamMachineUnitsStep",
      "TerraformInitStep(microk8s)",
      "MaasDeployMicrok8sApplicationStep",
      "AddMicrok8sUnitsStep",
      "StoreMicrok8sConfigStep",
      "AddMicrok8sCloudStep",
      "TerraformInitStep(microceph)",
      "DeployMicrocephApplicationStep",
      "MaasConfigureMicrocephOSDStep",
      "AddMicrocephUnitsStep",
      "TerraformInitStep(openstack)",
      "DeployControlPlaneStep",
      "ConfigureMySQLStep",
      "PatchLoadBalancerServicesStep",
      "TerraformInitStep(hypervisor)",
      "DeployHypervisorApplicationStep",
      "AddHypervisorUnitStep",
      "SetBootstrapped">>
DeployPlan2 ==
    <<"TerraformInitStep(sunbeam-machine)",
      "DeploySunbeamMachineApplicationStep",
      "AddSunbeamMachineUnitsStep",
      "TerraformInitStep(microk8s)",
      "MaasDeployMicrok8sApplicationStep",
      "AddMicrok8sUnitsStep",
      "StoreMicrok8sConfigStep",
      "AddMicrok8sCloudStep",
      "TerraformInitStep(microceph)",
      "DeployMicrocephApplicationStep",
      "AddMicrocephUnitsStep",
      "MaasConfigureMicrocephOSDStep",
      "TerraformInitStep(openstack)",
      "DeployControlPlaneStep",
      "ConfigureMySQLStep",
      "PatchLoadBalancerServicesStep",
      "TerraformInitStep(hypervisor)",
      "DeployHypervisorApplicationStep",
      "AddHypervisorUnitStep",
      "SetBootstrapped">>

\* the active deployment as loaded from the deployments configuration
Deployments ==
    [is_maas : BOOLEAN, juju_account : {"None", "stored"},
     juju_controller : BOOLEAN, clusterd_address : BOOLEAN]
NoDeployment == [is_maas |-> FALSE, juju_account |-> "None",
                 juju_controller |-> FALSE, clusterd_address |-> FALSE]
NoRoles == [control |-> 0, compute |-> 0, storage |-> 0]

NewCommand(name) ==
    [name |-> name,
     pc |-> "preflight_1",
     status |-> "running",          \* "running" | "ok" | "fail"
     batch |-> PreflightChecks1,    \* preflight checks still to run
     checks |-> <<>>,               \* checks run: name and outcome
     queue |-> <<>>,                \* steps of the plan still to run
     invoked |-> <<>>,              \* steps invoked, of every plan
     last |-> "NONE",               \* result of the step invoked last
     ok |-> 0,                      \* steps that ended COMPLETED or SKIPPED
     connected |-> "untried",       \* get_connected_controller: "yes" | "no"
     deployment |-> NoDeployment,
     written |-> "None",            \* account in the deployments file
     roles |-> NoRoles]

Exit(c, status) == [c EXCEPT !.pc = "exit", !.status = status,
                             !.batch = <<>>, !.queue = <<>>]

\* where a command goes after a batch of preflight checks has passed
AfterPreflight(c) ==
    IF c.pc = "preflight_1" THEN [c EXCEPT !.pc = "load"]
    ELSE IF c.name = "bootstrap" THEN [c EXCEPT !.pc = "account"]
    ELSE [c EXCEPT !.pc = "plan", !.queue = DeployPlan]

\* run_preflight_checks: the checks of the batch in order; a failing check
\* ends the command
CmdCheck ==
    /\ cmd.name # "none"
    /\ cmd.pc \in {"preflight_1", "preflight_2"}
    /\ cmd.batch # <<>>
    /\ \E passed \in BOOLEAN :
        LET c == [cmd EXCEPT !.checks = Append(@, [check |-> Head(cmd.batch),
                                                   passed |-> passed]),
                             !.batch = Tail(@)]
        IN cmd' = IF ~passed THEN Exit(c, "fail")
                  ELSE IF c.batch = <<>> THEN AfterPreflight(c)
                  ELSE c
    /\ UNCHANGED <<runnerVars, self, envVars, preseed, accept_defaults, call,
                   histVars>>

\* the active deployment is loaded; a deployment of another provider ends
\* the command
CmdLoad ==
    /\ cmd.name # "none"
    /\ cmd.pc = "load"
    /\ \E d \in Deployments :
        LET c == [cmd EXCEPT !.deployment = d, !.written = d.juju_account]
        IN cmd' = IF ~d.is_maas THEN Exit(c, "fail")
                  ELSE IF c.name = "bootstrap"
                  THEN [c EXCEPT !.pc = "preflight_2",
                                 !.batch = PreflightChecks2]
                  ELSE [c EXCEPT !.pc = "complete"]
    /\ UNCHANGED <<runnerVars, self, envVars, preseed, accept_defaults, call,
                   histVars>>

BootstrapAccountAlways ==
    /\ cmd.name = "bootstrap"
    /\ cmd.pc = "account"
    /\ LET c == [cmd EXCEPT !.deployment.juju_account = "new",
                            !.written = "new"]
       IN cmd' = [c EXCEPT !.pc = "plan", !.queue = BootstrapPlan]
    /\ UNCHANGED <<runnerVars, self, envVars, preseed, accept_defaults, call,
                   histVars>>
\* bootstrap: a Juju account is created and written when there is none
BootstrapAccount ==
    /\ cmd.name = "bootstrap"
    /\ cmd.pc = "account"
    /\ LET c == IF cmd.deployment.juju_account = "None"
                THEN [cmd EXCEPT !.deployment.juju_account = "new",
                                 !.written = "new"]
                ELSE cmd
       IN cmd' = [c EXCEPT !.pc = "plan", !.queue = BootstrapPlan]
    /\ UNCHANGED <<runnerVars, self, envVars, preseed, accept_defaults, call,
                   histVars>>

\* what a step that completed may have saved in the deployment
Saved(c, step) ==
    IF step = "MaasSaveControllerStep"
    THEN {c, [c EXCEPT !.deployment.juju_controller = TRUE]}
    ELSE IF step = "MaasSaveClusterdAddressStep"
    THEN {c, [c EXCEPT !.deployment.clusterd_address = TRUE]}
    ELSE {c}

\* where a command goes after a plan has succeeded
AfterPlan(c) ==
    IF c.name = "bootstrap"
    THEN IF c.pc = "plan" THEN [c EXCEPT !.pc = "saved"]
         ELSE [c EXCEPT !.pc = "address"]
    ELSE IF c.pc = "clusterd_plan"
         THEN [c EXCEPT !.pc = "preflight_2", !.batch = PreflightChecks2]
    ELSE IF c.pc = "plan" THEN [c EXCEPT !.pc = "roles"]
    ELSE [c EXCEPT !.pc = "finish"]

\* run_plan on the next step of the plan: the step is invoked; the plan
\* goes on when it ends SKIPPED or COMPLETED, the command ends otherwise
CmdStep ==
    /\ cmd.name # "none"
    /\ cmd.pc \in {"plan", "plan2", "clusterd_plan"}
    /\ cmd.queue # <<>>
    /\ LET step == Head(cmd.queue)
           c == [cmd EXCEPT !.invoked = Append(@, step), !.queue = Tail(@)]
       IN \/ \E t \in ResultTypes, u \in {"COMPLETED", "FAILED"} :
               LET skip == SkipDecision(StepResult(t))
                   decision == IF skip = "run" THEN RunDecision(StepResult(u))
                               ELSE skip
                   r == IF skip = "run" THEN u ELSE t
                   ended == [c EXCEPT !.last = r,
                                      !.ok = IF r \in {"COMPLETED", "SKIPPED"}
                                             THEN @ + 1 ELSE @]
               IN IF decision = "abort"
                  THEN cmd' = Exit(ended, "fail")
                  ELSE \E cc \in Saved(ended, step) :
                         cmd' = IF cc.queue = <<>> THEN AfterPlan(cc) ELSE cc
          \/ cmd' = Exit([c EXCEPT !.last = "RAISED"], "fail")
    /\ UNCHANGED <<runnerVars, self, envVars, preseed, accept_defaults, call,
                   histVars>>

\* bootstrap, after plan: account and controller must be saved, then the
\* controller is connected to
BootstrapSaved ==
    /\ cmd.name = "bootstrap"
    /\ cmd.pc = "saved"
    /\ \E connected \in BOOLEAN :
        cmd' = IF cmd.deployment.juju_account = "None" THEN Exit(cmd, "fail")
               ELSE IF ~cmd.deployment.juju_controller THEN Exit(cmd, "fail")
               ELSE IF ~connected
               THEN Exit([cmd EXCEPT !.connected = "no"], "fail")
               ELSE [cmd EXCEPT !.pc = "plan2", !.queue = BootstrapPlan2,
                                !.connected = "yes"]
    /\ UNCHANGED <<runnerVars, self, envVars, preseed, accept_defaults, call,
                   histVars>>

\* bootstrap, after plan2: the clusterd address must be saved
BootstrapAddress ==
    /\ cmd.name = "bootstrap"
    /\ cmd.pc = "address"
    /\ cmd' = IF ~cmd.deployment.clusterd_address THEN Exit(cmd, "fail")
              ELSE Exit(cmd, "ok")
    /\ UNCHANGED <<runnerVars, self, envVars, preseed, accept_defaults, call,
                   histVars>>

DeployCompleteNoAccount ==
    /\ cmd.name = "deploy"
    /\ cmd.pc = "complete"
    /\ \E connected \in BOOLEAN :
        cmd' = IF \/ ~cmd.deployment.clusterd_address
                  \/ ~cmd.deployment.juju_controller
               THEN Exit(cmd, "fail")
               ELSE IF ~connected
               THEN Exit([cmd EXCEPT !.connected = "no"], "fail")
               ELSE [cmd EXCEPT !.pc = "clusterd_plan",
                                !.queue = DeployClusterdPlan,
                                !.connected = "yes"]
    /\ UNCHANGED <<runnerVars, self, envVars, preseed, accept_defaults, call,
                   histVars>>
\* deploy: the deployment must be complete and its controller reachable
DeployComplete ==
    /\ cmd.name = "deploy"
    /\ cmd.pc = "complete"
    /\ \E connected \in BOOLEAN :
        cmd' = IF \/ ~cmd.deployment.clusterd_address
                  \/ cmd.deployment.juju_account = "None"
                  \/ ~cmd.deployment.juju_controller
               THEN Exit(cmd, "fail")
               ELSE IF ~connected
               THEN Exit([cmd EXCEPT !.connected = "no"], "fail")
               ELSE [cmd EXCEPT !.pc = "clusterd_plan",
                                !.queue = DeployClusterdPlan,
                                !.connected = "yes"]
    /\ UNCHANGED <<runnerVars, self, envVars, preseed, accept_defaults, call,
                   histVars>>

\* deploy, after plan: the nodes of each role are counted
DeployRoles ==
    /\ cmd.name = "deploy"
    /\ cmd.pc = "roles"
    /\ \E nb_control \in 0..MaxNodes, nb_compute \in 0..MaxNodes,
          nb_storage \in 0..MaxNodes :
        LET c == [cmd EXCEPT !.roles = [control |-> nb_control,
                                        compute |-> nb_compute,
                                        storage |-> nb_storage]]
        IN cmd' = IF nb_control + nb_compute + nb_storage < 3
                  THEN Exit(c, "fail")
                  ELSE [c EXCEPT !.pc = "plan2", !.queue = DeployPlan2]
    /\ UNCHANGED <<runnerVars, self, envVars, preseed, accept_defaults, call,
                   histVars>>

DeployFinish ==
    /\ cmd.name = "deploy"
    /\ cmd.pc = "finish"
    /\ cmd' = Exit(cmd, "ok")
    /\ UNCHANGED <<runnerVars, self, envVars, preseed, accept_defaults, call,
                   histVars>>

InitCmd ==
    /\ cmd \in {NewCommand("bootstrap"), NewCommand("deploy")}
    /\ plan = <<>>
    /\ exec = MaxExec
    /\ idx = 1
    /\ pc = "done"
    /\ planStatus = "running"
    /\ results = <<>>
    /\ surfaced = NoResult
    /\ raised = ""
    /\ trace = <<>>
    /\ active = {}
    /\ declared = <<>>
    /\ self = NoInstance
    /\ unit_osds = NewDisks.osds
    /\ unit_unpart = NewDisks.unpart
    /\ store = [g \in Groups |-> Absent]
    /\ preseed = EmptyCfg
    /\ accept_defaults \in BOOLEAN
    /\ call = NoCall
    /\ lastHook = NoHook
    /\ actions = <<>>
    /\ prevSel = [n \in Nodes |-> NoSelection]
    /\ earlier = NoEarlier

NextCmd ==
    \/ CmdCheck
    \/ CmdLoad
    \/ BootstrapAccount
    \/ CmdStep
    \/ BootstrapSaved
    \/ BootstrapAddress
    \/ DeployComplete
    \/ DeployRoles
    \/ DeployFinish

SpecCmd == InitCmd /\ [][NextCmd]_vars

\* --------------------------------------------- functions applied alone
\* DeployMicrocephApplicationStep.extra_tfvars: the charm configuration,
\* with the pool size when the cluster has storage nodes. storage_nodes is
\* the number of nodes listed with the storage role.
charm_microceph_config_always(storage_nodes) ==
    [k \in {"enable-rgw", "namespace-projects", "default-pool-size"} |->
        IF k = "enable-rgw" THEN "*"
        ELSE IF k = "namespace-projects" THEN "True"
        ELSE ceph_replica_scale(storage_nodes)]
charm_microceph_config(storage_nodes) ==
    LET config == [k \in {"enable-rgw", "namespace-projects"} |->
                      IF k = "enable-rgw" THEN "*" ELSE "True"]
    IN IF storage_nodes # 0
       THEN Put(config, "default-pool-size", ceph_replica_scale(storage_nodes))
       ELSE config

\* the offer URLs are set when terraform output has them
extra_tfvars(storage_nodes, keystone_endpoints_offer_url, traefik_rgw_offer_url) ==
    [charm_microceph_config |-> charm_microceph_config(storage_nodes),
     keys |-> {"endpoint_bindings", "charm_microceph_config"}
              \cup (IF keystone_endpoints_offer_url # ""
                    THEN {"keystone-endpoints-offer-url"} ELSE {})
              \cup (IF traefik_rgw_offer_url # ""
                    THEN {"ingress-rgw-offer-url"} ELSE {})]

\* the arguments the functions are applied to
OfferUrls == {"", "admin/openstack.offer"}
Answers == {None, Str(<<>>), Str(<<"/dev/sdc">>)}
Mappings == UNION {[D -> Answers] : D \in SUBSET Nodes}
Stores == {[g \in Groups |-> Absent]}
          \cup {[g \in Groups |-> IF g = h THEN [present |-> TRUE, cfg |-> m]
                                   ELSE Absent] : h \in Groups, m \in Mappings}
DiskLists == UNION {Perms(D) : D \in SUBSET Disks}

\* ---- the check runners _run_maas_checks and _run_maas_meta_checks
CLICK_OK == "OK"
CLICK_FAIL == "FAIL"

\* what check.run() returns: None, a list of results, or one result
DiagnosticsResults(name) ==
    UNION {[1..k -> [name : {name}, passed : BOOLEAN, message : {"diagnostics"}]]
              : k \in 0..MaxResults}
CheckReturns(name) ==
    {[kind |-> "None", items |-> <<>>]}
    \cup {[kind |-> "list", items |-> r] : r \in DiagnosticsResults(name)}
    \cup {[kind |-> "DiagnosticsResult", items |-> r]
            : r \in {q \in DiagnosticsResults(name) : Len(q) = 1}}
CheckNames == [k \in 1..(MaxChecks + 1) |->
                  IF k = 1 THEN "first check" ELSE IF k = 2 THEN "second check"
                  ELSE IF k = 3 THEN "third check" ELSE "another check"]
\* lists of checks: the k-th has the k-th name
CheckLists ==
    UNION {{l \in [1..k -> UNION {[name : {CheckNames[j]},
                                   results : CheckReturns(CheckNames[j])]
                                     : j \in 1..k}]
              : \A j \in 1..k : l[j].name = CheckNames[j]} : k \in 0..MaxChecks}

\* "not results", for what check.run() returned
NotResults(returned) ==
    returned.kind = "None" \/ (returned.kind = "list" /\ returned.items = <<>>)

\* result.to_dict()
to_dict(result) == [name |-> result.name, passed |-> result.passed,
                    message |-> result.message]
\* the lines printed by the verbose runner for the results of a check
VerboseLines(check) ==
    [k \in DOMAIN check.results.items |->
        [check |-> check.name, message |-> check.results.items[k].message,
         mark |-> IF check.results.items[k].passed THEN CLICK_OK
                  ELSE CLICK_FAIL]]
SummaryLineFirst(check) ==
    <<[check |-> check.name, message |-> "",
       mark |-> IF check.results.items[1].passed THEN CLICK_OK ELSE CLICK_FAIL]>>
\* the line printed by the summary runner for a check: results[-1].passed
SummaryLine(check) ==
    <<[check |-> check.name, message |-> "",
       mark |-> IF check.results.items[Len(check.results.items)].passed
                THEN CLICK_OK ELSE CLICK_FAIL]>>

\* what the verbose runner appends to the report for a check: to_dict of
\* every result, in the loop that prints them
VerboseReport(check) ==
    [k \in DOMAIN check.results.items |-> to_dict(check.results.items[k])]
SummaryReportLast(check) ==
    <<to_dict(check.results.items[Len(check.results.items)])>>
\* what the summary runner appends to the report for a check: to_dict of
\* every result, before the line is printed
SummaryReport(check) ==
    [k \in DOMAIN check.results.items |-> to_dict(check.results.items[k])]
\* the runner before its first check
NewRun == [ran |-> <<>>, printed |-> <<>>, check_results |-> <<>>,
           raised |-> "", returned |-> FALSE]

\* ---- GenerateCloudConfigStep, as its unit tests exercise it
\* GenerateCloudConfigStep(client, tfhelper, admin_credentials, cloud,
\*                         is_admin, update, clouds_yaml)
AdminCredentials ==
    {[OS_AUTH_URL |-> url, OS_USERNAME |-> "admin",
      OS_PASSWORD |-> "reallyhardpassword", OS_USER_DOMAIN_NAME |-> "admindomain",
      OS_PROJECT_DOMAIN_NAME |-> "projectdomain", OS_PROJECT_NAME |-> "projectname"]
        : url \in {"http://keystone:5000", "https://keystone:5000/v3"}}
\* tfhelper.output(): the credentials of the demo user
TerraformOutputs ==
    {[OS_USERNAME |-> u, OS_PASSWORD |-> "userpassword",
      OS_USER_DOMAIN_NAME |-> "userdomain",
      OS_PROJECT_DOMAIN_NAME |-> "userprojectdomain", OS_PROJECT_NAME |-> pr]
        : u \in {"user1", "user2"}, pr \in {"projectname", "demo"}}
\* load_answers: the answers of the demo setup
UserAnswers == {[user |-> [run_demo_setup |-> b]] : b \in BOOLEAN}

generate_is_skip_for_all(is_admin, variables) ==
    IF variables.user.run_demo_setup THEN "COMPLETED" ELSE "SKIPPED"
\* is_skip: the admin cloud entry is always generated, the one of the demo
\* user only when the demo setup has been run
generate_is_skip(is_admin, variables) ==
    IF is_admin THEN "COMPLETED"
    ELSE IF variables.user.run_demo_setup THEN "COMPLETED"
    ELSE "SKIPPED"

generate_run_admin_only(admin_credentials, tf_output, cloud, is_admin, update) ==
    [clouds |-> [name |-> cloud,
                 auth |-> [auth_url |-> admin_credentials.OS_AUTH_URL,
                           password |-> admin_credentials.OS_PASSWORD,
                           project_domain_name |-> admin_credentials.OS_PROJECT_DOMAIN_NAME,
                           project_name |-> admin_credentials.OS_PROJECT_NAME,
                           user_domain_name |-> admin_credentials.OS_USER_DOMAIN_NAME,
                           username |-> admin_credentials.OS_USERNAME]],
     destination |-> IF update THEN "clouds.yaml" ELSE "console"]
\* run: the cloud entry, written to clouds.yaml or printed
generate_run(admin_credentials, tf_output, cloud, is_admin, update) ==
    LET creds == IF is_admin
                 THEN [k \in DOMAIN tf_output |-> admin_credentials[k]]
                 ELSE tf_output
    IN [clouds |-> [name |-> cloud,
                    auth |-> [auth_url |-> admin_credentials.OS_AUTH_URL,
                              password |-> creds.OS_PASSWORD,
                              project_domain_name |-> creds.OS_PROJECT_DOMAIN_NAME,
                              project_name |-> creds.OS_PROJECT_NAME,
                              user_domain_name |-> creds.OS_USER_DOMAIN_NAME,
                              username |-> creds.OS_USERNAME]],
        destination |-> IF update THEN "clouds.yaml" ELSE "console"]

\* ---- timeouts of the MicroCeph steps, in seconds
MICROCEPH_APP_TIMEOUT == 540
MICROCEPH_UNIT_TIMEOUT == 1200
\* DeployMicrocephApplicationStep.get_application_timeout
get_application_timeout(step) == MICROCEPH_APP_TIMEOUT
\* AddMicrocephUnitsStep.get_unit_timeout, RemoveMicrocephUnitStep.get_unit_timeout
get_unit_timeout(step) == MICROCEPH_UNIT_TIMEOUT

Pending(fn, args) == [fn |-> fn, args |-> args, done |-> FALSE, out |-> "-",
                      read |-> FALSE]
Calls ==
    {Pending("ceph_replica_scale", [storage_nodes |-> k]) : k \in 0..MaxStorage}
    \cup
    {Pending("extra_tfvars", [storage_nodes |-> k, keystone |-> u, rgw |-> v])
        : k \in 0..MaxStorage, u \in OfferUrls, v \in OfferUrls}
    \cup
    {Pending("load_answers", [store |-> st, group |-> g])
        : st \in Stores, g \in Groups}
    \cup
    {Pending("write_answers", [store |-> st, group |-> g, mapping |-> m])
        : st \in Stores, g \in Groups, m \in Mappings}
    \cup
    {Pending("prompt", [preseed |-> ps, store |-> st, node |-> n,
                        accept |-> a, typed |-> t, unpartitioned_disks |-> ud])
        : ps \in Preseeds, st \in Stores, n \in Nodes, a \in BOOLEAN,
          t \in TypedInputs, ud \in DiskLists}
    \cup
    {Pending("get_application_timeout",
             [step |-> "DeployMicrocephApplicationStep"])}
    \cup
    {Pending("get_unit_timeout", [step |-> st])
        : st \in {"AddMicrocephUnitsStep", "RemoveMicrocephUnitStep"}}
    \cup
    {Pending("GenerateCloudConfigStep.is_skip",
             [is_admin |-> a, variables |-> v])
        : a \in BOOLEAN, v \in UserAnswers}
    \cup
    {Pending("GenerateCloudConfigStep.run",
             [admin_credentials |-> ac, tf_output |-> o, cloud |-> "sunbeam",
              is_admin |-> a, update |-> u])
        : ac \in AdminCredentials, o \in TerraformOutputs, a \in BOOLEAN,
          u \in BOOLEAN}
    \cup
    {[Pending(fn, [checks |-> l]) EXCEPT !.out = NewRun]
        : fn \in {"_run_maas_checks", "_run_maas_meta_checks"},
          l \in CheckLists}

Return(value) ==
    /\ call' = [call EXCEPT !.done = TRUE, !.out = value]
    /\ UNCHANGED <<runnerVars, self, envVars, preseed, accept_defaults, cmd,
                   histVars>>

ReplicaScale ==
    /\ call.fn = "ceph_replica_scale"
    /\ ~call.done
    /\ Return(ceph_replica_scale(call.args.storage_nodes))

ExtraTfvars ==
    /\ call.fn = "extra_tfvars"
    /\ ~call.done
    /\ Return(extra_tfvars(call.args.storage_nodes, call.args.keystone,
                           call.args.rgw))

LoadAnswers ==
    /\ call.fn = "load_answers"
    /\ ~call.done
    /\ Return(load_answers(call.args.store, call.args.group))

\* write_answers, then load_answers of every group
WriteAnswers ==
    /\ call.fn = "write_answers"
    /\ ~call.done
    /\ LET st == write_answers(call.args.store, call.args.group,
                               call.args.mapping)
       IN Return([g \in Groups |-> load_answers(st, g)])

\* the answer prompt gets for osd_devices, the typed value being the input
\* of the operator or the default offered
PromptAnswer ==
    /\ call.fn = "prompt"
    /\ ~call.done
    /\ LET s == [NewInstance([kind |-> "osd", node |-> call.args.node])
                   EXCEPT !.unpartitioned_disks = call.args.unpartitioned_disks]
       IN /\ call' = [call EXCEPT
                         !.done = TRUE,
                         !.out = prompt_answer(call.args.preseed,
                                               call.args.store, call.args.node,
                                               call.args.accept,
                                               call.args.typed, s),
                         !.read = prompt_reads(call.args.preseed,
                                               call.args.store, call.args.node,
                                               call.args.accept)]
          /\ UNCHANGED <<runnerVars, self, envVars, preseed, accept_defaults,
                         cmd, histVars>>

RunCheckSkipsEmpty(verbose) ==
    LET check == call.args.checks[Len(call.out.ran) + 1]
        ran == Append(call.out.ran, check.name)
    IN /\ ~call.done
       /\ Len(call.out.ran) < Len(call.args.checks)
       /\ call' =
            IF NotResults(check.results)
            THEN [call EXCEPT !.out.ran = ran]
            ELSE [call EXCEPT
                    !.out.ran = ran,
                    !.out.printed = @ \o IF verbose THEN VerboseLines(check)
                                         ELSE SummaryLine(check),
                    !.out.check_results =
                        @ \o IF verbose THEN VerboseReport(check)
                             ELSE SummaryReport(check)]
       /\ UNCHANGED <<runnerVars, self, envVars, preseed, accept_defaults,
                      cmd, histVars>>
\* one iteration of the loop of a runner: the check is run; no results is
\* a ValueError naming the check, else the lines are printed and the
\* results appended to the report
RunCheck(verbose) ==
    LET check == call.args.checks[Len(call.out.ran) + 1]
        ran == Append(call.out.ran, check.name)
    IN /\ ~call.done
       /\ Len(call.out.ran) < Len(call.args.checks)
       /\ call' =
            IF NotResults(check.results)
            THEN [call EXCEPT !.done = TRUE, !.out.ran = ran,
                              !.out.raised = check.name]
            ELSE [call EXCEPT
                    !.out.ran = ran,
                    !.out.printed = @ \o IF verbose THEN VerboseLines(check)
                                         ELSE SummaryLine(check),
                    !.out.check_results =
                        @ \o IF verbose THEN VerboseReport(check)
                             ELSE SummaryReport(check)]
       /\ UNCHANGED <<runnerVars, self, envVars, preseed, accept_defaults,
                      cmd, histVars>>

MaasCheck ==
    /\ call.fn = "_run_maas_checks"
    /\ RunCheck(TRUE)

MaasMetaCheck ==
    /\ call.fn = "_run_maas_meta_checks"
    /\ RunCheck(FALSE)

\* after the last check: return check_results
ChecksReturn ==
    /\ call.fn \in {"_run_maas_checks", "_run_maas_meta_checks"}
    /\ ~call.done
    /\ Len(call.out.ran) = Len(call.args.checks)
    /\ call' = [call EXCEPT !.done = TRUE, !.out.returned = TRUE]
    /\ UNCHANGED <<runnerVars, self, envVars, preseed, accept_defaults,
                   cmd, histVars>>

GetApplicationTimeout ==
    /\ call.fn = "get_application_timeout"
    /\ ~call.done
    /\ Return(get_application_timeout(call.args.step))

GetUnitTimeout ==
    /\ call.fn = "get_unit_timeout"
    /\ ~call.done
    /\ Return(get_unit_timeout(call.args.step))

GenerateIsSkip ==
    /\ call.fn = "GenerateCloudConfigStep.is_skip"
    /\ ~call.done
    /\ Return(generate_is_skip(call.args.is_admin, call.args.variables))

GenerateRun ==
    /\ call.fn = "GenerateCloudConfigStep.run"
    /\ ~call.done
    /\ Return(generate_run(call.args.admin_credentials, call.args.tf_output,
                           call.args.cloud, call.args.is_admin,
                           call.args.update))

InitFn ==
    /\ call \in Calls
    /\ cmd = NoCommand
    /\ plan = <<>>
    /\ exec = MaxExec
    /\ idx = 1
    /\ pc = "done"
    /\ planStatus = "running"
    /\ results = <<>>
    /\ surfaced = NoResult
    /\ raised = ""
    /\ trace = <<>>
    /\ active = {}
    /\ declared = <<>>
    /\ self = NoInstance
    /\ unit_osds = NewDisks.osds
    /\ unit_unpart = NewDisks.unpart
    /\ store = [g \in Groups |-> Absent]
    /\ preseed = EmptyCfg
    /\ accept_defaults = FALSE
    /\ lastHook = NoHook
    /\ actions = <<>>
    /\ prevSel = [n \in Nodes |-> NoSelection]
    /\ earlier = NoEarlier

NextFn ==
    \/ ReplicaScale
    \/ ExtraTfvars
    \/ LoadAnswers
    \/ WriteAnswers
    \/ PromptAnswer
    \/ GenerateIsSkip
    \/ GenerateRun
    \/ GetApplicationTimeout
    \/ GetUnitTimeout
    \/ MaasCheck
    \/ MaasMetaCheck
    \/ ChecksReturn

SpecFn == InitFn /\ [][NextFn]_vars

\* ================================================================ claims
IsCall(e) == e.ev = "call"
CallsOf(i) == {c \in DOMAIN trace : IsCall(trace[c]) /\ trace[c].step = i}
IsPrefix(a, b) == Len(a) <= Len(b) /\ \A k \in DOMAIN a : a[k] = b[k]
Protocol(hp) == IF hp THEN <<"prompt", "is_skip", "run">>
                ELSE <<"is_skip", "run">>
IsHookOf(e, i) == IsCall(e) /\ e.step = i
\* the hooks of step i in the order of their invocation
HooksOf(i) ==
    LET calls == SelectSeq(trace, LAMBDA e : IsHookOf(e, i))
    IN [k \in DOMAIN calls |-> calls[k].hook]
FailedAt(k) == /\ trace[k].ev = "ret"
               /\ trace[k].hook \in {"is_skip", "run"}
               /\ trace[k].type = "FAILED"

\* C1: fail-fast. Once is_skip or run of step i has returned FAILED, no hook
\* of a step after i has been or will be invoked in this plan execution:
\* the execution is over and every invocation of it is of a step <= i.
C1_FailFast ==
    \A k \in DOMAIN trace :
        FailedAt(k) =>
            /\ pc = "done"
            /\ k = Len(trace)
            /\ \A c \in DOMAIN trace :
                   IsCall(trace[c]) => trace[c].step <= trace[k].step

\* a step that is not the last one of its plan has returned FAILED
C1_Witness ==
    \E k \in DOMAIN trace : FailedAt(k) /\ trace[k].step < Len(plan)

\* C2: the hooks of a step are invoked in the order prompt (only when
\* has_prompts), is_skip, run, each after the one before has returned; run is
\* invoked only right after is_skip of the same step returned COMPLETED, and
\* never after it returned SKIPPED or FAILED.
C2_ProtocolOrder ==
    /\ \A i \in 1..Len(declared) :
           LET hooks == HooksOf(i)
           IN /\ hooks # <<>>
              /\ IsPrefix(hooks, Protocol(declared[i]))
    /\ \A c \in DOMAIN trace :
           /\ (IsCall(trace[c]) /\ trace[c].hook = "run") =>
                  c > 1 /\ trace[c - 1] = Ret(trace[c].step, "is_skip", "COMPLETED")
           /\ (IsCall(trace[c]) /\ trace[c].hook = "is_skip"
                 /\ declared[trace[c].step]) =>
                  c > 1 /\ trace[c - 1] = Ret(trace[c].step, "prompt", "NONE")
           /\ (trace[c].ev = "ret" /\ trace[c].hook = "is_skip"
                 /\ trace[c].type \in {"SKIPPED", "FAILED"}) =>
                  \A d \in DOMAIN trace : trace[d] # Call(trace[c].step, "run")

\* run of a step with prompts has been invoked, and is_skip of another step
\* of the same execution returned SKIPPED
C2_Witness ==
    /\ \E i \in 1..Len(declared) : declared[i] /\ HooksOf(i) = Protocol(TRUE)
    /\ \E c \in DOMAIN trace : trace[c].ev = "ret" /\ trace[c].type = "SKIPPED"

EndedOK(i) ==
    \E k \in DOMAIN results :
        /\ results[k].step = i
        /\ results[k].result.result_type \in {"COMPLETED", "SKIPPED"}
AllEndedOK == \A i \in 1..Len(plan) : EndedOK(i)

C4_Sequential ==
    /\ Cardinality(active) <= 1
    /\ active = IF pc \in {"prompt", "is_skip", "run"} THEN {<<idx, pc>>} ELSE {}
    /\ Cardinality({a \in active : a[2] = "prompt"}) <= 1
    /\ \A c \in 1..(Len(trace) - 1) :
           /\ trace[c].step <= trace[c + 1].step
           /\ IsCall(trace[c]) => /\ trace[c + 1].ev = "ret"
                                  /\ trace[c + 1].step = trace[c].step
                                  /\ trace[c + 1].hook = trace[c].hook
    /\ \A i \in 1..Len(declared) : CallsOf(i) # {}
    /\ \A c \in DOMAIN trace : trace[c].step \in 1..Len(declared)

\* the prompt of the second of two steps that write the store is in progress
C4_Witness ==
    /\ Len(plan) >= 2
    /\ plan[1].kind = "osd"
    /\ plan[2].kind = "osd"
    /\ active = {<<2, "prompt">>}

Checks(c) == {c.checks[k].check : k \in DOMAIN c.checks}
PassedChecks(c) ==
    {c.checks[k].check : k \in {j \in DOMAIN c.checks : c.checks[j].passed}}
AllPreflightChecks == Range(PreflightChecks1) \cup Range(PreflightChecks2)

\* C5: in bootstrap and deploy, once a step of any plan has been invoked
\* every preflight check of the command has been run and has passed; so when
\* a preflight check has failed, no step has been invoked.
C5_PreflightGate ==
    /\ cmd.invoked # <<>> => PassedChecks(cmd) = AllPreflightChecks
    /\ (\E k \in DOMAIN cmd.checks : ~cmd.checks[k].passed) => cmd.invoked = <<>>


\* the step the runner started last, and whether one of its hooks ended
CurStep == Len(declared)
Ended(h) == \E k \in DOMAIN trace :
                trace[k].ev = "ret" /\ trace[k].step = CurStep /\ trace[k].hook = h
Returned(h, t) == \E k \in DOMAIN trace : trace[k] = Ret(CurStep, h, t)
MicrocephHook == lastHook.kind \in {"osd", "pool"}
HasUnrelatedFailure(items) ==
    \E i \in DOMAIN items :
        /\ items[i].status = "failure"
        /\ items[i].message \in {"no such device", "None"}

LookupFailed ==
    /\ MicrocephHook
    /\ lastHook.hook \in {"prompt", "is_skip"}
    /\ lastHook.fault # "none"

EarlierDisksAdded ==
    /\ self.kind = "osd"
    /\ earlier.seen
    /\ Truthy(earlier.sel)
    /\ Range(earlier.sel.toks) \subseteq Range(self.osd_disks)

\* C8: when the step is executed again for a node and the disks selected by
\* the earlier execution are OSDs by now, is_skip returns SKIPPED and the
\* step invokes no add-osd action.
C8_Idempotent ==
    (EarlierDisksAdded /\ Ended("is_skip")) =>
        /\ Returned("is_skip", "SKIPPED")
        /\ ~(\E c \in DOMAIN trace : trace[c] = Call(CurStep, "run"))
        /\ actions = <<>>

\* second execution of the plan: the disk added by the first is skipped
C8_Witness ==
    /\ exec = 2
    /\ EarlierDisksAdded
    /\ Returned("is_skip", "SKIPPED")
    /\ unit_osds[self.node_name] # {}
    /\ accept_defaults

OsdRunActionFailed ==
    /\ lastHook.kind = "osd"
    /\ lastHook.hook = "run"
    /\ lastHook.fault = "ActionFailed"
    /\ lastHook.payload.parseable
FailingItems(items) == {i \in DOMAIN items : items[i].status = "failure"}
IsDuplicate(item) ==
    item.message = "failed to record disk: entry already exists"

\* C9: when add-osd fails with a per-item result list, run returns FAILED
\* if and only if some failing item has a message without "entry already
\* exists", and COMPLETED otherwise.
C9_Duplicates ==
    OsdRunActionFailed =>
        LET items == lastHook.payload.items
        IN /\ lastHook.outcome = "returned"
           /\ lastHook.result.result_type = "FAILED" <=>
                  \E i \in FailingItems(items) : ~IsDuplicate(items[i])
           /\ lastHook.result.result_type = "COMPLETED" <=>
                  \A i \in FailingItems(items) : IsDuplicate(items[i])

\* one "entry already exists" item and one unrelated failing item: FAILED
C9_Witness ==
    /\ OsdRunActionFailed
    /\ \E i, j \in FailingItems(lastHook.payload.items) :
           /\ IsDuplicate(lastHook.payload.items[i])
           /\ lastHook.payload.items[j].message = "no such device"
    /\ lastHook.result.result_type = "FAILED"

OsdIsSkipEnded ==
    /\ lastHook.kind = "osd"
    /\ lastHook.hook = "is_skip"

\* C10: is_skip returns SKIPPED when no disk is selected (None or ""), and
\* when every selected disk is an OSD disk of the unit; it returns COMPLETED
\* in every other case, that is when a selected disk is not yet an OSD.
C10_IsSkip ==
    OsdIsSkipEnded =>
        LET selected == lastHook.before
            missing == Range(selected.toks) \ Range(self.osd_disks)
        IN /\ lastHook.outcome = "returned"
           /\ (selected.isNone \/ selected.toks = <<>>) =>
                  lastHook.result.result_type = "SKIPPED"
           /\ missing = {} => lastHook.result.result_type = "SKIPPED"
           /\ lastHook.result.result_type = "COMPLETED" <=> missing # {}
           /\ lastHook.result.result_type \in {"SKIPPED", "COMPLETED"}

\* one selected disk is an OSD already and the other is not: COMPLETED
C10_Witness ==
    /\ OsdIsSkipEnded
    /\ Range(lastHook.before.toks) \cap Range(self.osd_disks) # {}
    /\ Range(lastHook.before.toks) \ Range(self.osd_disks) # {}
    /\ lastHook.result.result_type = "COMPLETED"

\* run of one of the two MicroCeph steps returned FAILED
RunFailed ==
    /\ MicrocephHook
    /\ lastHook.hook = "run"
    /\ lastHook.outcome = "returned"
    /\ lastHook.result.result_type = "FAILED"

\* C11: every FAILED result returned by run of ConfigureMicrocephOSDStep and
\* of SetCephMgrPoolSizeStep carries a non-empty message, the result whose
\* message is the text of the caught exception included.
C11_FailedHasMessage ==
    RunFailed => lastHook.result.message.text # ""

\* the prompt of the step has run for a storage node without OSD disks, with
\* unpartitioned disks, no preseed for the node, no previous answer for it,
\* and accept-defaults set
NewStorageNode ==
    /\ self.kind = "osd"
    /\ earlier.loaded
    /\ earlier.variables[self.node_name].isNone
    /\ preseed_osd_devices(preseed, self.node_name).isNone
    /\ accept_defaults
    /\ self.osd_disks = <<>>
    /\ self.unpartitioned_disks # <<>>
OsdRunEnded ==
    /\ lastHook.kind = "osd"
    /\ lastHook.hook = "run"
UnitFound == lastHook.fault \notin {"UnitNotFound", "ApplicationNotFound"}

\* C12: for such a node with unpartitioned disks U, prompt selects U (in the
\* order listed), is_skip returns COMPLETED, and run, when it finds the unit
\* of the machine, invokes exactly one add-osd action, on that node, whose
\* device-id names each disk of U once and nothing else; the step never
\* invokes more than one action.
C12_EndToEnd ==
    NewStorageNode =>
        LET U == Range(self.unpartitioned_disks)
            n == self.node_name
        IN /\ prevSel[n].sel = Join(self.unpartitioned_disks)
           /\ Ended("is_skip") => Returned("is_skip", "COMPLETED")
           /\ Len(actions) <= 1
           /\ ~OsdRunEnded => actions = <<>>
           /\ (OsdRunEnded /\ UnitFound) =>
                  /\ Len(actions) = 1
                  /\ actions[1].name = "add-osd"
                  /\ actions[1].node = n
                  /\ ~actions[1].device_id.isNone
                  /\ Range(actions[1].device_id.toks) = U
                  /\ Len(actions[1].device_id.toks) = Cardinality(U)

\* two unpartitioned disks were selected by default and added by one action
C12_Witness ==
    /\ NewStorageNode
    /\ Len(self.unpartitioned_disks) = 2
    /\ OsdRunEnded
    /\ lastHook.fault = "none"
    /\ lastHook.result.result_type = "COMPLETED"
    /\ Len(actions) = 1
    /\ unit_osds[self.node_name] = Disks

Applied(fn) == call.fn = fn /\ call.done
Min(a, b) == CHOOSE x \in {a, b} : \A y \in {a, b} : x <= y

\* C13: for every storage-node count n >= 0, ceph_replica_scale(n) is
\* min(n, 3): n for n <= 3 and 3 for every larger n.
C13_ReplicaScale ==
    Applied("ceph_replica_scale") =>
        LET n == call.args.storage_nodes
        IN /\ call.out = Min(n, 3)
           /\ n <= 3 => call.out = n
           /\ n > 3 => call.out = 3

\* the function applied to a count above the ceiling
C13_Witness ==
    /\ Applied("ceph_replica_scale")
    /\ call.args.storage_nodes > 3
    /\ call.out = 3

\* the steps of the plan a command has assembled: invoked or still queued
Assembled(c) == Range(c.invoked) \cup Range(c.queue)

\* C14: when deploy counts no node with the storage role, the plan it
\* assembles contains no MicroCeph OSD configuration step.
C14_NoStorageNoOsdStep ==
    (cmd.name = "deploy" /\ cmd.roles.storage = 0) =>
        "MaasConfigureMicrocephOSDStep" \notin Assembled(cmd)

PoolIsSkipReturned ==
    /\ lastHook.kind = "pool"
    /\ lastHook.hook = "is_skip"
    /\ lastHook.outcome = "returned"
SetPoolSizeActions == {k \in DOMAIN actions : actions[k].name = "set-pool-size"}

\* C15: is_skip of SetCephMgrPoolSizeStep returns SKIPPED exactly when the
\* cluster lists no node with the storage role and COMPLETED exactly when it
\* lists at least one; the set-pool-size action is invoked only by a step
\* that has seen at least one storage node.
C15_PoolIsSkip ==
    /\ PoolIsSkipReturned =>
          /\ lastHook.result.result_type = "SKIPPED" <=> self.storage_nodes = 0
          /\ lastHook.result.result_type = "COMPLETED" <=> self.storage_nodes >= 1
    /\ SetPoolSizeActions # {} =>
          /\ self.kind = "pool"
          /\ self.storage_nodes >= 1
          /\ Returned("is_skip", "COMPLETED")

\* no storage node: is_skip returned SKIPPED and the runner went on to the
\* next step without an action
C15_Witness ==
    /\ PoolIsSkipReturned
    /\ self.storage_nodes = 0
    /\ lastHook.result.result_type = "SKIPPED"
    /\ actions = <<>>
    /\ pc = "step"
    /\ idx = CurStep + 1

\* C16: when run of SetCephMgrPoolSizeStep is invoked by the runner, the
\* size of the set-pool-size action is min(n, 3) for the number n of storage
\* nodes listed by is_skip: one of 1, 2, 3 and never 0.
C16_PoolSize ==
    \A k \in SetPoolSizeActions :
        /\ actions[k].size = Min(self.storage_nodes, 3)
        /\ actions[k].size \in {1, 2, 3}
        /\ Len(actions) = 1

\* more storage nodes than the ceiling: the action is invoked with size 3
C16_Witness ==
    /\ lastHook.kind = "pool"
    /\ lastHook.hook = "run"
    /\ self.storage_nodes > 3
    /\ SetPoolSizeActions # {}
    /\ actions[1].size = 3
    /\ lastHook.result.result_type = "COMPLETED"

\* C17: extra_tfvars of DeployMicrocephApplicationStep sets
\* charm_microceph_config["default-pool-size"] if and only if at least one
\* node has the storage role; when set its value is min(storage-node count,
\* 3); with no storage node the key is absent, not set to 0.
C17_DefaultPoolSize ==
    Applied("extra_tfvars") =>
        LET n == call.args.storage_nodes
            config == call.out.charm_microceph_config
        IN /\ "default-pool-size" \in DOMAIN config <=> n >= 1
           /\ n >= 1 => /\ config["default-pool-size"] = Min(n, 3)
                        /\ config["default-pool-size"] # 0
           /\ {"enable-rgw", "namespace-projects"} \subseteq DOMAIN config

\* the variables computed without a storage node: the key is absent
C17_Witness ==
    /\ Applied("extra_tfvars")
    /\ call.args.storage_nodes = 0
    /\ DOMAIN call.out.charm_microceph_config = {"enable-rgw", "namespace-projects"}

StoredDisks == load_answers(store, CONFIG_DISKS_KEY)

\* C19: once a prompt has written the answer of a node, every later load of
\* the group returns that answer until a later prompt for the node replaces
\* it: in every later state, after writes to the other config group and in
\* later plan executions, and in particular the load made by the prompt of
\* a later step or of a later execution returned the answers written last.
C19_Durable ==
    /\ \A n \in Nodes :
          prevSel[n].seen =>
              /\ store[CONFIG_DISKS_KEY].present
              /\ n \in DOMAIN StoredDisks
              /\ StoredDisks[n] = prevSel[n].sel
    /\ (self.kind = "osd" /\ earlier.loaded) =>
          /\ earlier.seen => earlier.variables[self.node_name] = earlier.sel
          /\ \A n \in Nodes \ {self.node_name} :
                 prevSel[n].seen =>
                     /\ n \in DOMAIN earlier.variables
                     /\ earlier.variables[n] = prevSel[n].sel

\* second execution of a plan: the prompt loaded the disks its first
\* execution had written, another step having written the other group since
C19_Witness ==
    /\ exec = 2
    /\ self.kind = "osd"
    /\ earlier.loaded
    /\ earlier.seen
    /\ Truthy(earlier.sel)
    /\ earlier.variables[self.node_name] = earlier.sel
    /\ store[CONFIG_KEY].present

\* C20: the value of the question is the preseed value of the node when the
\* preseed gives one (a list of devices being joined with commas); otherwise
\* the answer stored for the node when there is one; otherwise the value
\* typed at the prompt; otherwise (no prompt: accept-defaults) the computed
\* default, the unpartitioned disks joined with commas, or None.
C20_Precedence ==
    Applied("prompt") =>
        LET a == call.args
            n == a.node
            given == n \in DOMAIN a.preseed /\ a.preseed[n].kind # "none"
            saved == a.store[CONFIG_DISKS_KEY]
            exists == /\ saved.present
                      /\ n \in DOMAIN saved.cfg
                      /\ ~saved.cfg[n].isNone
            computed == IF a.unpartitioned_disks # <<>>
                        THEN Str(a.unpartitioned_disks) ELSE None
        IN call.out = IF given THEN Str(a.preseed[n].toks)
                      ELSE IF exists THEN saved.cfg[n]
                      ELSE IF ~a.accept THEN a.typed
                      ELSE computed

\* preseed, stored answer, typed value and default all differ: preseed wins
C20_Witness ==
    /\ Applied("prompt")
    /\ call.args.node = "node-1"
    /\ "node-1" \in DOMAIN call.args.preseed
    /\ call.args.preseed["node-1"].kind = "list"
    /\ call.args.store[CONFIG_DISKS_KEY].present
    /\ "node-1" \in DOMAIN call.args.store[CONFIG_DISKS_KEY].cfg
    /\ call.args.store[CONFIG_DISKS_KEY].cfg["node-1"] = Str(<<"/dev/sdc">>)
    /\ ~call.args.accept
    /\ call.args.typed = Str(<<"/dev/sdb">>)
    /\ call.args.unpartitioned_disks = <<"/dev/sdb", "/dev/sdc">>
    /\ call.out = Str(<<"/dev/sdc", "/dev/sdb">>)

\* the arguments of an applied prompt: the preseed value given for the node,
\* the answer stored for it, the computed default
PromptPreseed ==
    IF call.args.node \in DOMAIN call.args.preseed
          /\ call.args.preseed[call.args.node].kind # "none"
    THEN Str(call.args.preseed[call.args.node].toks) ELSE None
PromptPrevious ==
    LET saved == call.args.store[CONFIG_DISKS_KEY]
    IN IF saved.present /\ call.args.node \in DOMAIN saved.cfg
       THEN saved.cfg[call.args.node] ELSE None
PromptDefault ==
    IF call.args.unpartitioned_disks # <<>>
    THEN Str(call.args.unpartitioned_disks) ELSE None

\* C21 as claimed: with accept-defaults prompt reads nothing from the
\* console and the answer is the preseed value, or else the default.
C21_DefaultOrPreseed ==
    (Applied("prompt") /\ call.args.accept) =>
        /\ ~call.read
        /\ call.out = IF ~PromptPreseed.isNone THEN PromptPreseed
                      ELSE PromptDefault

\* C21 amended: with accept-defaults prompt reads nothing from the console
\* and the answer is exactly the preseed value when one is given, else the
\* answer stored before when there is one, else the computed default; the
\* value typed has no influence.
C21_AcceptDefaults ==
    (Applied("prompt") /\ call.args.accept) =>
        /\ ~call.read
        /\ call.out = IF ~PromptPreseed.isNone THEN PromptPreseed
                      ELSE IF ~PromptPrevious.isNone THEN PromptPrevious
                      ELSE PromptDefault

\* accept-defaults, no preseed, a stored answer that is not the default
C21_Witness ==
    /\ Applied("prompt")
    /\ call.args.accept
    /\ PromptPreseed.isNone
    /\ PromptPrevious = Str(<<"/dev/sdc">>)
    /\ PromptDefault = Str(<<"/dev/sdb">>)
    /\ call.args.typed = Str(<<"/dev/sdb">>)
    /\ call.out = Str(<<"/dev/sdc">>)
    /\ ~call.read

RunnerCall == call.fn \in {"_run_maas_checks", "_run_maas_meta_checks"}
\* the checks of the call that have been run, and what each returned
RanChecks == 1..Len(call.out.ran)
ReturnedOf(j) == call.args.checks[j].results
ZeroResults(j) == ReturnedOf(j).kind = "None" \/ ReturnedOf(j).items = <<>>

\* C22: in both runners, when the run of a check returns no results (None or
\* an empty list) the runner raises an error naming that check: the check
\* is the last one run and no report is returned. The runner raises for no
\* other reason.
C22_ZeroResults ==
    RunnerCall =>
        /\ \A j \in RanChecks :
               /\ call.out.ran[j] = call.args.checks[j].name
               /\ ZeroResults(j) =>
                      /\ call.done
                      /\ call.out.raised = call.args.checks[j].name
                      /\ j = Len(call.out.ran)
                      /\ ~call.out.returned
        /\ call.out.raised # "" =>
               /\ ~call.out.returned
               /\ call.out.ran # <<>>
               /\ ZeroResults(Len(call.out.ran))
        /\ call.out.returned =>
               /\ call.done
               /\ Len(call.out.ran) = Len(call.args.checks)

\* the second of two checks returned an empty list: the runner raised after
\* printing the result of the first
C22_Witness ==
    /\ RunnerCall
    /\ Len(call.args.checks) = 2
    /\ call.out.raised = "second check"
    /\ ReturnedOf(2) = [kind |-> "list", items |-> <<>>]
    /\ call.out.printed # <<>>
    /\ call.done

Mark(result) == IF result.passed THEN "OK" ELSE "FAIL"
\* the number of lines the verbose runner has printed before check j
RECURSIVE LinesBefore(_)
LinesBefore(j) ==
    IF j = 1 THEN 0 ELSE LinesBefore(j - 1) + Len(ReturnedOf(j - 1).items)

\* C23: the verbose runner prints one line for every result of every check
\* run, the checks in the order they are run and the results of a check in
\* their order, each with the mark of that result; the summary runner prints
\* exactly one line for every check run, with the mark of the last result of
\* the check. (A check without results prints nothing: see C22.)
C23_OutputModes ==
    /\ call.fn = "_run_maas_checks" =>
          /\ Len(call.out.printed) = LinesBefore(Len(call.out.ran) + 1)
          /\ \A j \in RanChecks : \A k \in DOMAIN ReturnedOf(j).items :
                 LET line == call.out.printed[LinesBefore(j) + k]
                 IN /\ line.check = call.args.checks[j].name
                    /\ line.message = ReturnedOf(j).items[k].message
                    /\ line.mark = Mark(ReturnedOf(j).items[k])
    /\ call.fn = "_run_maas_meta_checks" =>
          /\ Len(call.out.printed) =
                 Cardinality({j \in RanChecks : ~ZeroResults(j)})
          /\ \A j \in RanChecks :
                 ~ZeroResults(j) =>
                     /\ call.out.printed[j].check = call.args.checks[j].name
                     /\ call.out.printed[j].mark =
                            Mark(ReturnedOf(j).items[Len(ReturnedOf(j).items)])

\* the summary runner returned after a check whose first result passed and
\* whose last result failed, and a check with one result
C23_Witness ==
    /\ call.fn = "_run_maas_meta_checks"
    /\ call.out.returned
    /\ Len(call.args.checks) = 2
    /\ Len(ReturnedOf(1).items) = 2
    /\ ReturnedOf(1).items[1].passed
    /\ ~ReturnedOf(1).items[2].passed
    /\ ReturnedOf(2).kind = "DiagnosticsResult"
    /\ ReturnedOf(2).items[1].passed
    /\ call.out.printed = <<[check |-> "first check", message |-> "",
                             mark |-> "FAIL"],
                            [check |-> "second check", message |-> "",
                             mark |-> "OK"]>>

\* the invocations of hook h of step i in the current plan execution
Invocations(i, h) == {c \in DOMAIN trace : trace[c] = Call(i, h)}
AtMostOnce ==
    /\ \A i \in 1..Len(plan) : \A h \in {"prompt", "is_skip", "run"} :
           Cardinality(Invocations(i, h)) <= 1
    /\ Len(declared) <= Len(plan)
    /\ Len(trace) <= 6 * Len(plan)

\* C24: every execution of a plan ends, and in an execution each of prompt,
\* is_skip and run is invoked at most once for each step of the plan: no
\* step is started twice and no hook is retried.
C24_Terminates ==
    /\ []AtMostOnce
    /\ (pc # "done") ~> (pc = "done")

\* a plan of two steps succeeded, every hook of both steps invoked once
C24_Witness ==
    /\ pc = "done"
    /\ planStatus = "success"
    /\ Len(plan) = 2
    /\ \A i \in 1..2 : \A h \in {"prompt", "is_skip", "run"} :
           Cardinality(Invocations(i, h)) = 1

\* C25: is_skip of GenerateCloudConfigStep returns COMPLETED for the admin
\* user; for another user it returns COMPLETED exactly when the stored
\* answers have run_demo_setup true, and SKIPPED when it is false.
C25_GenerateIsSkip ==
    Applied("GenerateCloudConfigStep.is_skip") =>
        LET demo == call.args.variables.user.run_demo_setup
        IN /\ call.args.is_admin => call.out = "COMPLETED"
           /\ ~call.args.is_admin =>
                  /\ call.out = "COMPLETED" <=> demo
                  /\ call.out = "SKIPPED" <=> ~demo

\* the admin user, the demo setup not run: COMPLETED
C25_Witness ==
    /\ Applied("GenerateCloudConfigStep.is_skip")
    /\ call.args.is_admin
    /\ ~call.args.variables.user.run_demo_setup
    /\ call.out = "COMPLETED"

\* C26: run of GenerateCloudConfigStep gives a cloud entry, under the name
\* of the cloud, whose auth_url is that of the admin credentials, and whose
\* username, password, user domain, project domain and project name are
\* those of the terraform output for a user who is not the admin and those
\* of the admin credentials for the admin; the document goes to clouds.yaml
\* with update, and the same document is printed to the console without.
C26_GenerateRun ==
    Applied("GenerateCloudConfigStep.run") =>
        LET a == call.args
            auth == call.out.clouds.auth
            from == IF a.is_admin THEN a.admin_credentials ELSE a.tf_output
        IN /\ call.out.clouds.name = a.cloud
           /\ auth.auth_url = a.admin_credentials.OS_AUTH_URL
           /\ auth.username = from.OS_USERNAME
           /\ auth.password = from.OS_PASSWORD
           /\ auth.user_domain_name = from.OS_USER_DOMAIN_NAME
           /\ auth.project_domain_name = from.OS_PROJECT_DOMAIN_NAME
           /\ auth.project_name = from.OS_PROJECT_NAME
           /\ call.out.destination = IF a.update THEN "clouds.yaml" ELSE "console"

\* the entry of the demo user, printed to the console
C26_Witness ==
    /\ Applied("GenerateCloudConfigStep.run")
    /\ ~call.args.is_admin
    /\ ~call.args.update
    /\ call.out.destination = "console"
    /\ call.out.clouds.auth.username = "user1"
    /\ call.out.clouds.auth.auth_url = "http://keystone:5000"


\* deploy has assembled its main plan: a step of plan2 is queued or invoked
MainPlanAssembled ==
    /\ cmd.name = "deploy"
    /\ Range(DeployPlan2) \cap Assembled(cmd) # {}

\* C27: deploy assembles and runs its main plan only when the cluster has
\* at least one node of each role, control, compute and storage.
C27_EachRole ==
    MainPlanAssembled =>
        /\ cmd.roles.control >= 1
        /\ cmd.roles.compute >= 1
        /\ cmd.roles.storage >= 1


OsdRunHook(fault) ==
    /\ lastHook.kind = "osd"
    /\ lastHook.hook = "run"
    /\ lastHook.fault = fault
NamesDisks(r, disks) ==
    /\ r.message # NoMessage
    /\ r.message.text = "Microceph Adding disks failed"
    /\ r.message.disks = disks

\* C28: run of ConfigureMicrocephOSDStep returns FAILED with a message that
\* names the disks when the unit of the machine is not found, and then
\* invokes no action; it returns FAILED when add-osd fails and the payload
\* of the failure is not a list of per-item results; it returns COMPLETED
\* when the action succeeds.
C28_OsdRunResults ==
    /\ [](OsdRunHook("UnitNotFound") =>
            /\ lastHook.outcome = "returned"
            /\ lastHook.result.result_type = "FAILED"
            /\ NamesDisks(lastHook.result, self.disks))
    /\ []((OsdRunHook("ActionFailed") /\ ~lastHook.payload.parseable) =>
            /\ lastHook.outcome = "returned"
            /\ lastHook.result.result_type = "FAILED")
    /\ [](OsdRunHook("none") =>
            /\ lastHook.outcome = "returned"
            /\ lastHook.result.result_type = "COMPLETED")
    /\ [][(OsdRun /\ lastHook'.fault = "UnitNotFound") =>
              actions' = actions]_vars

\* add-osd failed on two selected disks with a payload that cannot be
\* parsed: FAILED, the action having been invoked
C28_Witness ==
    /\ OsdRunHook("ActionFailed")
    /\ ~lastHook.payload.parseable
    /\ lastHook.result.result_type = "FAILED"
    /\ Len(self.disks.toks) = 2
    /\ \E k \in DOMAIN actions :
           actions[k].name = "add-osd" /\ actions[k].device_id = self.disks


PoolRunHook ==
    /\ lastHook.kind = "pool"
    /\ lastHook.hook = "run"
PoolRunCaught == {"ApplicationNotFound", "LeaderNotFound", "ActionFailed"}

\* C29: run of SetCephMgrPoolSizeStep returns COMPLETED exactly when the
\* set-pool-size action was invoked and its result contains a status; it
\* returns FAILED when the result has no status, and FAILED with the text
\* of the exception when the leader lookup or the action fails with
\* ApplicationNotFound, LeaderNotFound or ActionFailed.
C29_PoolRunResults ==
    PoolRunHook =>
        LET r == lastHook.result
        IN /\ lastHook.outcome = "returned"
           /\ r.result_type \in {"COMPLETED", "FAILED"}
           /\ r.result_type = "COMPLETED" <=>
                  /\ lastHook.fault = "none"
                  /\ lastHook.has_status
           /\ r.result_type = "COMPLETED" =>
                  /\ actions # <<>>
                  /\ actions[Len(actions)].name = "set-pool-size"
           /\ (lastHook.fault = "none" /\ ~lastHook.has_status) =>
                  r.result_type = "FAILED"
           /\ lastHook.fault \in PoolRunCaught =>
                  /\ r.result_type = "FAILED"
                  /\ r.message.text = lastHook.exc_text

\* the action was invoked and returned a result without a status: FAILED
C29_Witness ==
    /\ PoolRunHook
    /\ lastHook.fault = "none"
    /\ ~lastHook.has_status
    /\ lastHook.result.result_type = "FAILED"
    /\ actions # <<>>
    /\ actions[Len(actions)].name = "set-pool-size"


\* the disks selected for the node of the step, and those already OSDs
SelectedDisks == Range(Split(prevSel[self.node_name].sel))
AlreadyOsds == Range(self.osd_disks)
OsdIsSkipCompleted ==
    /\ lastHook.kind = "osd"
    /\ lastHook.hook = "is_skip"
    /\ lastHook.result.result_type = "COMPLETED"
OsdRunInvoked ==
    /\ lastHook.kind = "osd"
    /\ lastHook.hook = "run"
    /\ lastHook.fault \in {"none", "ActionFailed"}

\* C30: after is_skip of ConfigureMicrocephOSDStep returns COMPLETED, the
\* disks of the step are the selected disks without those that are already
\* OSDs, each once: not empty, none already an OSD, none that was not
\* selected; and they are the device-id that run passes to add-osd.
C30_DisksToAdd ==
    /\ OsdIsSkipCompleted =>
          LET to_add == Range(Split(self.disks))
          IN /\ to_add = SelectedDisks \ AlreadyOsds
             /\ to_add # {}
             /\ to_add \cap AlreadyOsds = {}
             /\ to_add \subseteq SelectedDisks
             /\ Len(Split(self.disks)) = Cardinality(to_add)
    /\ OsdRunInvoked =>
          /\ actions # <<>>
          /\ LET a == actions[Len(actions)]
             IN /\ a.name = "add-osd"
                /\ a.device_id = self.disks
                /\ Range(Split(a.device_id)) = SelectedDisks \ AlreadyOsds

\* two disks selected, one of them already an OSD: add-osd on the other
C30_Witness ==
    /\ OsdRunInvoked
    /\ Cardinality(SelectedDisks) = 2
    /\ SelectedDisks \cap AlreadyOsds # {}
    /\ Len(Split(actions[Len(actions)].device_id)) = 1


\* a step of the prompt of ConfigureMicrocephOSDStep that returns
OsdPromptReturns ==
    /\ pc = "prompt"
    /\ self.kind = "osd"
    /\ lastHook'.hook = "prompt"
    /\ lastHook'.outcome = "returned"

\* C31: when the prompt of ConfigureMicrocephOSDStep for node N returns,
\* the persisted disks group holds the answer chosen for N, and the entry
\* of every other node in the group is as it was before the prompt.
C31_PromptFrame ==
    [][OsdPromptReturns =>
          LET n == self.node_name
              before == load_answers(store, CONFIG_DISKS_KEY)
              after == load_answers(store', CONFIG_DISKS_KEY)
          IN /\ store'[CONFIG_DISKS_KEY].present
             /\ n \in DOMAIN after
             /\ after[n] = self'.disks
             /\ DOMAIN after \ {n} = DOMAIN before \ {n}
             /\ \A m \in DOMAIN before \ {n} : after[m] = before[m]]_vars

\* the prompt for the first node has returned; the group still holds the
\* answer of the second node next to the new one
C31_Witness ==
    /\ lastHook.kind = "osd"
    /\ lastHook.hook = "prompt"
    /\ lastHook.outcome = "returned"
    /\ self.node_name = "node-1"
    /\ Truthy(self.disks)
    /\ StoredDisks["node-1"] = self.disks
    /\ "node-2" \in DOMAIN StoredDisks
    /\ Truthy(StoredDisks["node-2"])


\* a step of the prompt of ConfigureMicrocephOSDStep in which the disks of
\* the node could not be listed
OsdPromptListFails ==
    /\ pc = "prompt"
    /\ self.kind = "osd"
    /\ lastHook'.hook = "prompt"
    /\ lastHook'.fault \in {"UnitNotFound", "ActionFailed"}

\* C32: when listing the disks of the node fails in the prompt of
\* ConfigureMicrocephOSDStep, with the unit not found or the list-disks
\* action failed, prompt ends with an error, no answers having been loaded
\* or written: the persisted store is exactly as it was.
C32_ListFailure ==
    [][OsdPromptListFails =>
          /\ lastHook'.outcome = "raised"
          /\ raised' = "ClickException"
          /\ ~earlier'.loaded
          /\ store' = store]_vars

\* the prompt of a later plan execution ended with the error, the store
\* holding the answer written by the first execution
C32_Witness ==
    /\ lastHook.kind = "osd"
    /\ lastHook.hook = "prompt"
    /\ lastHook.fault = "UnitNotFound"
    /\ lastHook.outcome = "raised"
    /\ raised = "ClickException"
    /\ exec = 2
    /\ prevSel[self.node_name].seen
    /\ StoredDisks[self.node_name] = prevSel[self.node_name].sel


\* a step of is_skip or run of one of the two MicroCeph steps
MicrocephIsSkipOrRun ==
    /\ self.kind \in {"osd", "pool"}
    /\ pc \in {"is_skip", "run"}

\* C33: is_skip and run of ConfigureMicrocephOSDStep and of
\* SetCephMgrPoolSizeStep leave the persisted store unchanged; after is_skip
\* has removed the disks already added from the disks of the step, the
\* persisted answer of the node is still the answer of the prompt.
C33_OnlyPromptWrites ==
    /\ [][MicrocephIsSkipOrRun => store' = store]_vars
    /\ []((self.kind = "osd" /\ pc \in {"is_skip", "run"}
             /\ prevSel[self.node_name].seen) =>
            /\ self.node_name \in DOMAIN StoredDisks
            /\ StoredDisks[self.node_name] = prevSel[self.node_name].sel)

\* is_skip has removed an OSD from the two disks selected; the store holds
\* both
C33_Witness ==
    /\ OsdIsSkipCompleted
    /\ Len(Split(self.disks)) = 1
    /\ Len(Split(StoredDisks[self.node_name])) = 2
    /\ StoredDisks[self.node_name] = prevSel[self.node_name].sel
    /\ SelectedDisks \cap AlreadyOsds # {}


\* the entries of every result of every check, the checks in their order
\* and the results of a check in theirs
RECURSIVE ExpectedReport(_)
ExpectedReport(checks) ==
    IF checks = <<>> THEN <<>>
    ELSE LET items == Head(checks).results.items
         IN [k \in DOMAIN items |-> [name |-> items[k].name,
                                     passed |-> items[k].passed,
                                     message |-> items[k].message]]
            \o ExpectedReport(Tail(checks))
AllHaveResults == \A j \in DOMAIN call.args.checks : ~ZeroResults(j)

\* C34: on a list of checks that all give at least one result, the verbose
\* runner and the summary runner return the same report, the one that
\* depends on the checks only: an entry for every result of every check,
\* in the order of the checks and then of the results; a result that is a
\* failure stops neither runner, every check of the list is run.
C34_SameReport ==
    (RunnerCall /\ AllHaveResults) =>
        /\ call.out.raised = ""
        /\ call.done =>
              /\ call.out.returned
              /\ call.out.ran = [j \in DOMAIN call.args.checks |->
                                    call.args.checks[j].name]
              /\ call.out.check_results = ExpectedReport(call.args.checks)

\* the summary runner returned the three entries of two checks, the first
\* check having failed
C34_Witness ==
    /\ call.fn = "_run_maas_meta_checks"
    /\ call.out.returned
    /\ Len(call.args.checks) = 2
    /\ Len(ReturnedOf(1).items) = 2
    /\ ~ReturnedOf(1).items[1].passed
    /\ ~ReturnedOf(1).items[2].passed
    /\ Len(call.out.ran) = 2
    /\ Len(call.out.check_results) = 3


\* the steps of the command in order: those invoked, then those queued
PlannedSteps == cmd.invoked \o cmd.queue
ComesBefore(a, b) ==
    \A j \in DOMAIN PlannedSteps :
        PlannedSteps[j] = b => \E i \in 1..(j - 1) : PlannedSteps[i] = a
InvokedBefore(a, b) ==
    \A j \in DOMAIN cmd.invoked :
        cmd.invoked[j] = b => \E i \in 1..(j - 1) : cmd.invoked[i] = a
MainPlanChains ==
    {<<"TerraformInitStep(sunbeam-machine)",
       "DeploySunbeamMachineApplicationStep", "AddSunbeamMachineUnitsStep">>,
     <<"TerraformInitStep(microk8s)", "MaasDeployMicrok8sApplicationStep",
       "AddMicrok8sUnitsStep">>,
     <<"TerraformInitStep(microceph)", "DeployMicrocephApplicationStep",
       "AddMicrocephUnitsStep">>,
     <<"DeployMicrocephApplicationStep", "AddMicrocephUnitsStep",
       "MaasConfigureMicrocephOSDStep">>}

\* C35: in the main plan of deploy, for sunbeam-machine, microk8s and
\* microceph the Terraform init step comes before the step that deploys
\* the application, which comes before the step that adds the units; the
\* MicroCeph OSD configuration step comes after the step that adds the
\* MicroCeph units; SetBootstrapped is the last step, and when it is
\* invoked every step invoked before it has ended COMPLETED or SKIPPED.
C35_MainPlanOrder ==
    MainPlanAssembled =>
        /\ \A ch \in MainPlanChains :
               /\ cmd.pc = "plan2" =>
                      Range(ch) \subseteq Range(PlannedSteps)
               /\ ComesBefore(ch[1], ch[2]) /\ ComesBefore(ch[2], ch[3])
               /\ InvokedBefore(ch[1], ch[2]) /\ InvokedBefore(ch[2], ch[3])
        /\ cmd.queue # <<>> =>
               PlannedSteps[Len(PlannedSteps)] = "SetBootstrapped"
        /\ \A j \in DOMAIN cmd.invoked :
               cmd.invoked[j] = "SetBootstrapped" =>
                   /\ j = Len(cmd.invoked)
                   /\ cmd.queue = <<>>
                   /\ cmd.ok >= j - 1

\* deploy has ended after SetBootstrapped and every step before it
C35_Witness ==
    /\ cmd.name = "deploy"
    /\ cmd.status = "ok"
    /\ cmd.invoked # <<>>
    /\ cmd.invoked[Len(cmd.invoked)] = "SetBootstrapped"
    /\ cmd.ok = Len(cmd.invoked)
    /\ \E j \in DOMAIN cmd.invoked :
           /\ cmd.invoked[j] = "AddMicrocephUnitsStep"
           /\ cmd.invoked[j + 1] = "MaasConfigureMicrocephOSDStep"


\* the active deployment of the command lacks the clusterd address, the
\* Juju account or the Juju controller
Incomplete(d) ==
    \/ ~d.clusterd_address
    \/ d.juju_account = "None"
    \/ ~d.juju_controller
PastCompleteness == cmd.pc \notin {"preflight_1", "load", "complete"}

\* C36: deploy invokes no step of any plan when the active deployment is
\* incomplete or its controller cannot be connected to: it has then exited
\* with failure, no step invoked; a step is invoked only on a complete
\* deployment whose controller was connected to.
C36_CompleteFirst ==
    cmd.name = "deploy" =>
        /\ (PastCompleteness /\ Incomplete(cmd.deployment)) =>
              /\ cmd.pc = "exit"
              /\ cmd.status = "fail"
              /\ cmd.invoked = <<>>
        /\ cmd.connected = "no" =>
              /\ cmd.pc = "exit"
              /\ cmd.status = "fail"
              /\ cmd.invoked = <<>>
        /\ cmd.invoked # <<>> =>
              /\ ~Incomplete(cmd.deployment)
              /\ cmd.connected = "yes"

\* a MAAS deployment with address and controller but no Juju account:
\* deploy has exited, every check of the first batch having passed
C36_Witness ==
    /\ cmd.name = "deploy"
    /\ cmd.pc = "exit"
    /\ cmd.status = "fail"
    /\ cmd.invoked = <<>>
    /\ cmd.deployment.is_maas
    /\ cmd.deployment.clusterd_address
    /\ cmd.deployment.juju_controller
    /\ cmd.deployment.juju_account = "None"
    /\ Len(cmd.checks) = Len(PreflightChecks1)
    /\ \A k \in DOMAIN cmd.checks : cmd.checks[k].passed


\* C37: bootstrap creates a Juju account only when the deployment has
\* none, and writes it to the deployments configuration at once: an account
\* that exists is the same, in the deployment and in the file, after every
\* step of bootstrap, and when the first step of a plan is invoked the file
\* holds the account of the deployment.
C37_AccountOnce ==
    /\ [][(cmd.name = "bootstrap" /\ cmd.deployment.juju_account # "None") =>
              /\ cmd'.deployment.juju_account = cmd.deployment.juju_account
              /\ cmd'.written = cmd.written]_vars
    /\ [][(cmd.name = "bootstrap" /\ cmd.pc = "account"
             /\ cmd.deployment.juju_account = "None") =>
              /\ cmd'.deployment.juju_account = "new"
              /\ cmd'.written = "new"
              /\ cmd'.invoked = <<>>]_vars
    /\ []((cmd.name = "bootstrap" /\ cmd.invoked # <<>>) =>
              /\ cmd.written # "None"
              /\ cmd.written = cmd.deployment.juju_account)

\* bootstrap of a deployment that had an account: the plans have run and
\* the account is the one that was stored
C37_Witness ==
    /\ cmd.name = "bootstrap"
    /\ cmd.status = "ok"
    /\ cmd.written = "stored"
    /\ cmd.deployment.juju_account = "stored"
    /\ Len(cmd.invoked) = Len(BootstrapPlan) + Len(BootstrapPlan2)


Minutes(m) == m * 60

\* C38: the application timeout of DeployMicrocephApplicationStep is 9
\* minutes in seconds, and the unit timeout of AddMicrocephUnitsStep and of
\* RemoveMicrocephUnitStep is 15 minutes in seconds.
C38_Timeouts ==
    /\ Applied("get_application_timeout") => call.out = Minutes(9)
    /\ Applied("get_unit_timeout") => call.out = Minutes(15)

====
